---- MODULE Spec2Model ----
(***************************************************************************)
(* Reactive session / recommendation engine of music4dementia-reactive.    *)
(*                                                                         *)
(*   ReactiveSessionManager      src/src/models/Track.js  258-623          *)
(*   MusicRecommendationEngine   src/src/reactive/music-engine.js          *)
(*   REST session routes         src/src/routes/sessions.js                *)
(*   WebSocket session handler   src/unnamed/part_000                      *)
(*                                                                         *)
(* A JavaScript Map is modelled as a function whose domain is the set of   *)
(* its keys; a Map whose iteration order the code depends on (the          *)
(* participants of a session) is a sequence in insertion order.  An        *)
(* optional JSON value (intensity) is a sequence of length 0 or 1.         *)
(***************************************************************************)
EXTENDS Integers, Sequences, FiniteSets, TLC

VARIABLES
  activeSessions,   \* ReactiveSessionManager.activeSessions : sessionId -> session
  userSessions,     \* ReactiveSessionManager.userSessions   : userId -> sessionId
  userPreferences,  \* MusicRecommendationEngine.userPreferences$ : profileId -> (trackId -> score)
  connections,      \* open session WebSockets : connectionId -> sessionId of the URL
  wsPending,        \* debounceTime(300) of each open connection : connectionId -> last USER_REACTION
  timerQ,           \* pending debounce timers, in the order in which they expire
  submitted,        \* number of reactions submitted so far (REST requests and WS messages)
  now,              \* Date.now(), in units of the decay time of the engagement (5 minutes)
  recommendationsStream,  \* a subscription of MusicRecommendationEngine.recommendations$
  wsBurst,          \* connectionId -> the messages of its current or last burst, in order
  reply,            \* what the last request or message was answered with
  args,             \* arguments of the engine functions that are checked on their own
  published,        \* events published by the last operation, in order
  lastOp            \* the last operation, its arguments and its outcome

vars == <<activeSessions, userSessions, userPreferences, connections,
          wsPending, timerQ, submitted, now, recommendationsStream, wsBurst, reply, args,
          published, lastOp>>

managerVars == <<activeSessions, userSessions>>
wsVars == <<connections, wsPending, timerQ, wsBurst>>
fixedVars == <<now, args, recommendationsStream>>

(***************************************************************************)
(* Bounds of the model and the finite sets the inputs are drawn from.      *)
(***************************************************************************)
MaxReactions == 2       \* reactions recorded per session (manager specification)
MaxTracksPlayed == 1    \* track changes per session
MaxSubmissions == 3     \* reactions submitted (ordering specification)
MaxScored == 1          \* reactions submitted (scoring specification)
MaxEngaged == 2         \* reactions submitted (engagement specification)
MaxRecommended == 2     \* reactions submitted (recommendation specification)
MaxAdaptive == 1        \* reactions submitted (adaptive specification)
MaxClock == 1           \* decay times that pass (engagement specification)
MaxRest == 1            \* reactions submitted (join specification)

SessionIds == {"s1", "s2"}
UserIds == {"u1", "u2"}
ProfileIds == {"p1", "p2"}
ConnIds == {"c1", "c2"}
TrackIds == {"track1", "trackX"}

\* the manager specification records reactions and track changes in one of
\* its two sessions, and every participant joins with the same profile
ReactingSessions == {"s1"}
JoiningProfiles == {"p1"}

None == "none"

Sentiments == {"strongly like", "like", "neutral", "dislike", "strongly dislike"}

\* intensity of a reaction: <<>> when the payload has none, <<n>> otherwise
NoIntensity == <<>>

(***************************************************************************)
(* JavaScript helpers.                                                     *)
(***************************************************************************)
MapSet(m, k, v) == [x \in (DOMAIN m) \cup {k} |-> IF x = k THEN v ELSE m[x]]
MapDelete(m, k) == [x \in (DOMAIN m) \ {k} |-> m[x]]
EmptyMap == [x \in {} |-> None]

\* a || b on optional numbers: a unless it is undefined or 0
Truthy(a) == a # <<>> /\ a[1] # 0
Or(a, b) == IF Truthy(a) THEN a ELSE b

\* comparisons with undefined are false
Geq(a, n) == a # <<>> /\ a[1] >= n
Leq(a, n) == a # <<>> /\ a[1] <= n

IsPrefix(s, t) == Len(s) <= Len(t) /\ \A i \in 1..Len(s) : s[i] = t[i]

\* index of the first element of seq that satisfies Test, 0 when there is none
FirstIndex(seq, Test(_)) ==
  IF \E i \in 1..Len(seq) : Test(seq[i])
  THEN CHOOSE i \in 1..Len(seq) : Test(seq[i]) /\ \A j \in 1..(i - 1) : ~Test(seq[j])
  ELSE 0

RemoveAt(seq, i) == [j \in 1..(Len(seq) - 1) |-> IF j < i THEN seq[j] ELSE seq[j + 1]]

(***************************************************************************)
(* Events.                                                                 *)
(***************************************************************************)
SessionEvent(type, sessionId, userId) ==
  [stream |-> "sessionEvents$", type |-> type, sessionId |-> sessionId, who |-> userId]
UserReactionEvent(sessionId, reactionData) ==
  [stream |-> "userReactions$", type |-> "reaction", sessionId |-> sessionId,
   who |-> reactionData.profileId]
RealtimeReactionEvent(sessionId, reactionData) ==
  [stream |-> "realtimeReactions$", type |-> "reaction", sessionId |-> sessionId,
   who |-> reactionData.profileId]

(***************************************************************************)
(* ReactiveSessionManager.                                                 *)
(***************************************************************************)
DefaultReactionThreshold == 3
DefaultIntensity == 3
DefaultMaxParticipants == 10

NewSession(sessionId) ==
  [id |-> sessionId,
   participants |-> <<>>,
   currentTrack |-> None,
   reactions |-> <<>>,
   metrics |-> [tracksPlayed |-> 0, positiveReactions |-> 0, negativeReactions |-> 0,
                averageEngagement |-> 0],
   settings |-> [autoNext |-> TRUE,
                 reactionThreshold |-> DefaultReactionThreshold,
                 maxParticipants |-> DefaultMaxParticipants]]

NewParticipant(userInfo) ==
  [userId |-> userInfo.userId,
   profileId |-> userInfo.profileId,
   connectionId |-> userInfo.connectionId,
   reactions |-> <<>>,
   currentEngagement |-> 0]

\* The result of a manager method: the two tables, the events it published
\* and the error it threw (None when it returned).
Result(sessions, users, events, error) ==
  [sessions |-> sessions, users |-> users, events |-> events, error |-> error]

createSession(sessions, users, sessionId) ==
  Result(MapSet(sessions, sessionId, NewSession(sessionId)),
         users,
         <<SessionEvent("SESSION_CREATED", sessionId, None)>>,
         None)

\* { ...defaults, ...options.settings }: the given keys replace the defaults
Spread(defaults, settings) ==
  [k \in DOMAIN defaults \cup DOMAIN settings |->
     IF k \in DOMAIN settings THEN settings[k] ELSE defaults[k]]

\* createSession({sessionId, settings})
createSessionWithSettings(sessions, users, sessionId, settings) ==
  Result(MapSet(sessions, sessionId,
                [NewSession(sessionId) EXCEPT !.settings = Spread(@, settings)]),
         users,
         <<SessionEvent("SESSION_CREATED", sessionId, None)>>,
         None)

\* Map.set(userId, participant): a present key keeps its place in the order
ParticipantsSet(participants, p) ==
  LET i == FirstIndex(participants, LAMBDA q : q.userId = p.userId)
  IN IF i = 0 THEN Append(participants, p)
     ELSE [participants EXCEPT ![i] = p]

\* joinSession that writes the user-to-session index before it looks the
\* session up
joinSession_IndexBeforeLookup(sessions, users, sessionId, userInfo) ==
  IF sessionId \notin DOMAIN sessions
  THEN Result(sessions, MapSet(users, userInfo.userId, sessionId), <<>>, "SessionNotFound")
  ELSE LET session == sessions[sessionId]
           joined == [session EXCEPT
                        !.participants = ParticipantsSet(@, NewParticipant(userInfo))]
       IN Result(MapSet(sessions, sessionId, joined),
                 MapSet(users, userInfo.userId, sessionId),
                 <<SessionEvent("USER_JOINED", sessionId, userInfo.userId)>>,
                 None)

\* joinSession that adds a participant entry at every join (push in place of
\* Map.set)
joinSession_AppendsParticipant(sessions, users, sessionId, userInfo) ==
  IF sessionId \notin DOMAIN sessions
  THEN Result(sessions, users, <<>>, "SessionNotFound")
  ELSE LET session == sessions[sessionId]
           joined == [session EXCEPT !.participants = Append(@, NewParticipant(userInfo))]
       IN Result(MapSet(sessions, sessionId, joined),
                 MapSet(users, userInfo.userId, sessionId),
                 <<SessionEvent("USER_JOINED", sessionId, userInfo.userId)>>,
                 None)

joinSession(sessions, users, sessionId, userInfo) ==
  IF sessionId \notin DOMAIN sessions
  THEN Result(sessions, users, <<>>, "SessionNotFound")
  ELSE LET session == sessions[sessionId]
           joined == [session EXCEPT
                        !.participants = ParticipantsSet(@, NewParticipant(userInfo))]
       IN Result(MapSet(sessions, sessionId, joined),
                 MapSet(users, userInfo.userId, sessionId),
                 <<SessionEvent("USER_JOINED", sessionId, userInfo.userId)>>,
                 None)

\* endSession that forgets activeSessions.delete(sessionId)
endSession_KeepsSession(sessions, users, sessionId) ==
  IF sessionId \notin DOMAIN sessions
  THEN Result(sessions, users, <<>>, None)
  ELSE LET session == sessions[sessionId]
           members == {session.participants[i].userId : i \in 1..Len(session.participants)}
       IN Result(sessions,
                 [u \in (DOMAIN users) \ members |-> users[u]],
                 <<SessionEvent("SESSION_ENDED", sessionId, None)>>,
                 None)

\* endSession without the early return for a session that is not in the table
endSession_NoEarlyReturn(sessions, users, sessionId) ==
  LET members ==
        IF sessionId \in DOMAIN sessions
        THEN {sessions[sessionId].participants[i].userId :
                i \in 1..Len(sessions[sessionId].participants)}
        ELSE {}
  IN Result(MapDelete(sessions, sessionId),
            [u \in (DOMAIN users) \ members |-> users[u]],
            <<SessionEvent("SESSION_ENDED", sessionId, None)>>,
            None)

endSession(sessions, users, sessionId) ==
  IF sessionId \notin DOMAIN sessions
  THEN Result(sessions, users, <<>>, None)
  ELSE LET session == sessions[sessionId]
           members == {session.participants[i].userId : i \in 1..Len(session.participants)}
       IN Result(MapDelete(sessions, sessionId),
                 [u \in (DOMAIN users) \ members |-> users[u]],
                 <<SessionEvent("SESSION_ENDED", sessionId, None)>>,
                 None)

\* leaveSession without the clean-up of an emptied session
leaveSession_NoCleanup(sessions, users, sessionId, connectionId) ==
  IF sessionId \notin DOMAIN sessions
  THEN Result(sessions, users, <<>>, None)
  ELSE LET session == sessions[sessionId]
           i == FirstIndex(session.participants, LAMBDA p : p.connectionId = connectionId)
       IN IF i = 0
          THEN Result(sessions, users, <<>>, None)
          ELSE LET userIdToRemove == session.participants[i].userId
                   left == [session EXCEPT !.participants = RemoveAt(@, i)]
               IN Result(MapSet(sessions, sessionId, left),
                         MapDelete(users, userIdToRemove),
                         <<SessionEvent("USER_LEFT", sessionId, userIdToRemove)>>, None)

\* leaveSession whose clean-up of an empty session is outside the
\* if (userIdToRemove) block
leaveSession_CleanupOutside(sessions, users, sessionId, connectionId) ==
  IF sessionId \notin DOMAIN sessions
  THEN Result(sessions, users, <<>>, None)
  ELSE LET session == sessions[sessionId]
           i == FirstIndex(session.participants, LAMBDA p : p.connectionId = connectionId)
           left == IF i = 0 THEN session
                   ELSE [session EXCEPT !.participants = RemoveAt(@, i)]
           sessions1 == MapSet(sessions, sessionId, left)
           users1 == IF i = 0 THEN users
                     ELSE MapDelete(users, session.participants[i].userId)
           userLeft == IF i = 0 THEN <<>>
                       ELSE <<SessionEvent("USER_LEFT", sessionId,
                                           session.participants[i].userId)>>
       IN IF Len(left.participants) = 0
          THEN LET ended == endSession(sessions1, users1, sessionId)
               IN Result(ended.sessions, ended.users, userLeft \o ended.events, None)
          ELSE Result(sessions1, users1, userLeft, None)

\* leaveSession that cleans up the empty session before it emits USER_LEFT
leaveSession_EndsFirst(sessions, users, sessionId, connectionId) ==
  IF sessionId \notin DOMAIN sessions
  THEN Result(sessions, users, <<>>, None)
  ELSE LET session == sessions[sessionId]
           i == FirstIndex(session.participants, LAMBDA p : p.connectionId = connectionId)
       IN IF i = 0
          THEN Result(sessions, users, <<>>, None)
          ELSE LET userIdToRemove == session.participants[i].userId
                   left == [session EXCEPT !.participants = RemoveAt(@, i)]
                   sessions1 == MapSet(sessions, sessionId, left)
                   users1 == MapDelete(users, userIdToRemove)
                   userLeft == SessionEvent("USER_LEFT", sessionId, userIdToRemove)
               IN IF Len(left.participants) = 0
                  THEN LET ended == endSession(sessions1, users1, sessionId)
                       IN Result(ended.sessions, ended.users,
                                 ended.events \o <<userLeft>>, None)
                  ELSE Result(sessions1, users1, <<userLeft>>, None)

leaveSession(sessions, users, sessionId, connectionId) ==
  IF sessionId \notin DOMAIN sessions
  THEN Result(sessions, users, <<>>, None)
  ELSE LET session == sessions[sessionId]
           i == FirstIndex(session.participants, LAMBDA p : p.connectionId = connectionId)
       IN IF i = 0
          THEN Result(sessions, users, <<>>, None)
          ELSE LET userIdToRemove == session.participants[i].userId
                   left == [session EXCEPT !.participants = RemoveAt(@, i)]
                   sessions1 == MapSet(sessions, sessionId, left)
                   users1 == MapDelete(users, userIdToRemove)
                   userLeft == SessionEvent("USER_LEFT", sessionId, userIdToRemove)
               IN IF Len(left.participants) = 0
                  THEN LET ended == endSession(sessions1, users1, sessionId)
                       IN Result(ended.sessions, ended.users,
                                 <<userLeft>> \o ended.events, None)
                  ELSE Result(sessions1, users1, <<userLeft>>, None)

IsPositive(r) == r.reaction = "like" \/ r.reaction = "strongly like" \/ Geq(r.intensity, 4)
IsNegative(r) == r.reaction = "dislike" \/ r.reaction = "strongly dislike" \/ Leq(r.intensity, 2)

RECURSIVE SumSeq(_)
SumSeq(seq) == IF seq = <<>> THEN 0 ELSE Head(seq) + SumSeq(Tail(seq))

\* Engagement scores are fixed-point numbers, in thousandths.
\* Math.exp(-age) in thousandths, the age in units of the decay time
ageWeight(age) ==
  CASE age <= 0 -> 1000
    [] age = 1 -> 368
    [] age = 2 -> 135
    [] OTHER -> 50

\* reaction.intensity || 3
intensityScore(reaction) == Or(reaction.intensity, <<DefaultIntensity>>)[1]

calculateEngagement(reactions, clock) ==
  IF Len(reactions) = 0 THEN 0
  ELSE LET weightedScores ==
             [i \in 1..Len(reactions) |->
                intensityScore(reactions[i]) * ageWeight(clock - reactions[i].timestamp)]
       IN SumSeq(weightedScores) \div Len(weightedScores)

updateSessionMetrics(metrics, participants, reactionData) ==
  LET counted ==
        IF IsPositive(reactionData)
        THEN [metrics EXCEPT !.positiveReactions = @ + 1]
        ELSE IF IsNegative(reactionData)
             THEN [metrics EXCEPT !.negativeReactions = @ + 1]
             ELSE metrics
      participantEngagements ==
        [i \in 1..Len(participants) |-> participants[i].currentEngagement]
  IN [counted EXCEPT !.averageEngagement =
        IF Len(participantEngagements) > 0
        THEN SumSeq(participantEngagements) \div Len(participantEngagements)
        ELSE 0]

\* updateUserReaction that puts the reaction at the head of the list (unshift)
updateUserReaction_Unshift(sessions, users, sessionId, reactionData, clock) ==
  IF sessionId \notin DOMAIN sessions
  THEN Result(sessions, users, <<>>, None)
  ELSE LET session == sessions[sessionId]
           recorded == [session EXCEPT
                          !.reactions = <<reactionData>> \o @,
                          !.metrics = updateSessionMetrics(@, session.participants,
                                                           reactionData)]
       IN Result(MapSet(sessions, sessionId, recorded), users,
                 <<UserReactionEvent(sessionId, reactionData)>>, None)

\* clock is the value of Date.now() during the call
updateUserReaction(sessions, users, sessionId, reactionData, clock) ==
  IF sessionId \notin DOMAIN sessions
  THEN Result(sessions, users, <<>>, None)
  ELSE LET session == sessions[sessionId]
           i == FirstIndex(session.participants,
                           LAMBDA p : p.profileId = reactionData.profileId)
           participants1 ==
             IF i = 0 THEN session.participants
             ELSE LET reactions1 == Append(session.participants[i].reactions, reactionData)
                  IN [session.participants EXCEPT
                        ![i].reactions = reactions1,
                        ![i].currentEngagement = calculateEngagement(reactions1, clock)]
           recorded == [session EXCEPT
                          !.reactions = Append(@, reactionData),
                          !.participants = participants1,
                          !.metrics = updateSessionMetrics(@, participants1, reactionData)]
       IN Result(MapSet(sessions, sessionId, recorded), users,
                 <<UserReactionEvent(sessionId, reactionData)>>, None)

\* updateCurrentTrack that forgets session.metrics.tracksPlayed++
updateCurrentTrack_NoCount(sessions, users, sessionId, trackId) ==
  IF sessionId \notin DOMAIN sessions
  THEN Result(sessions, users, <<>>, None)
  ELSE LET session == sessions[sessionId]
           changed == [session EXCEPT !.currentTrack = trackId]
       IN Result(MapSet(sessions, sessionId, changed), users,
                 <<SessionEvent("TRACK_CHANGED", sessionId, None)>>, None)

\* updateCurrentTrack that sets the track of every session of the store
updateCurrentTrack_AllSessions(sessions, users, sessionId, trackId) ==
  IF sessionId \notin DOMAIN sessions
  THEN Result(sessions, users, <<>>, None)
  ELSE Result([s \in DOMAIN sessions |->
                 [sessions[s] EXCEPT !.currentTrack = trackId,
                                     !.metrics.tracksPlayed = @ + 1]],
              users,
              <<SessionEvent("TRACK_CHANGED", sessionId, None)>>, None)

updateCurrentTrack(sessions, users, sessionId, trackId) ==
  IF sessionId \notin DOMAIN sessions
  THEN Result(sessions, users, <<>>, None)
  ELSE LET session == sessions[sessionId]
           changed == [session EXCEPT
                         !.currentTrack = trackId,
                         !.metrics.tracksPlayed = @ + 1]
       IN Result(MapSet(sessions, sessionId, changed), users,
                 <<SessionEvent("TRACK_CHANGED", sessionId, None)>>, None)

CountIf(seq, Test(_)) == Cardinality({i \in 1..Len(seq) : Test(seq[i])})

calculateSessionMetrics(session) ==
  [sessionId |-> session.id,
   participantCount |-> Len(session.participants),
   tracksPlayed |-> session.metrics.tracksPlayed,
   totalReactions |-> Len(session.reactions),
   positiveReactions |-> CountIf(session.reactions, IsPositive),
   negativeReactions |-> CountIf(session.reactions, IsNegative),
   currentTrack |-> session.currentTrack,
   isActive |-> TRUE]

\* what a lookup returns: <<>> for undefined or null, <<v>> for the value v
Undefined == <<>>

getSession(sessions, sessionId) ==
  IF sessionId \in DOMAIN sessions THEN <<sessions[sessionId]>> ELSE Undefined

\* sessionId ? this.activeSessions.get(sessionId) : null
getUserSession(sessions, users, userId) ==
  IF userId \in DOMAIN users THEN getSession(sessions, users[userId]) ELSE Undefined

getSessionMetrics(sessions, sessionId) ==
  IF sessionId \in DOMAIN sessions
  THEN <<calculateSessionMetrics(sessions[sessionId])>>
  ELSE Undefined

(***************************************************************************)
(* MusicRecommendationEngine: scoring of a reaction and the Preference     *)
(* Model.                                                                  *)
(***************************************************************************)
baseScores ==
  [r \in Sentiments |->
     CASE r = "strongly like" -> 5
       [] r = "like" -> 4
       [] r = "neutral" -> 3
       [] r = "dislike" -> 2
       [] r = "strongly dislike" -> 1]

DefaultScore == 3

\* intensity || baseScores[reaction] || 3
reactionToScore(reaction, intensity) ==
  LET base == IF reaction \in DOMAIN baseScores THEN <<baseScores[reaction]>> ELSE <<>>
  IN Or(intensity, Or(base, <<DefaultScore>>))[1]

updateUserPreferencesWithScore(preferences, profileId, trackId, score) ==
  LET userPrefs == IF profileId \in DOMAIN preferences THEN preferences[profileId]
                   ELSE EmptyMap
  IN MapSet(preferences, profileId, MapSet(userPrefs, trackId, score))

(***************************************************************************)
(* MusicRecommendationEngine: the Feature Store and the recommendation     *)
(* strategies.                                                             *)
(*                                                                         *)
(* Scores, similarities, energy and valence are fixed-point numbers, in    *)
(* thousandths; eras are years and tempos beats per minute.  A Map the     *)
(* code iterates over (the Feature Store) is a sequence of entries in      *)
(* insertion order.                                                        *)
(***************************************************************************)
Features(genre, era, energy, valence, tempo) ==
  [genre |-> genre, era |-> era, energy |-> energy, valence |-> valence, tempo |-> tempo]
Entry(trackId, features) == [trackId |-> trackId, features |-> features]

\* the Feature Store initializeEngine loads; nothing replaces it later
trackFeatures ==
  <<Entry("track1", Features("classical", 1960, 300, 700, 80)),
    Entry("track2", Features("folk", 1970, 500, 800, 100)),
    Entry("track3", Features("jazz", 1950, 600, 600, 120)),
    Entry("track4", Features("blues", 1960, 400, 500, 90)),
    Entry("track5", Features("classical", 1940, 200, 900, 70))>>

\* Map.get(trackId): <<features>> or Undefined
FeaturesOf(catalog, trackId) ==
  LET i == FirstIndex(catalog, LAMBDA en : en.trackId = trackId)
  IN IF i = 0 THEN Undefined ELSE <<catalog[i].features>>

\* sessionContext$ and collaborativeModel$ keep the empty Map of the
\* constructor: no code calls next on them
sessionContext == EmptyMap
collaborativeModel == EmptyMap

\* this.sessionContext$.value.get(sessionId) || {}
EmptyContext ==
  [timeOfDay |-> Undefined, sessionDuration |-> Undefined, averageReaction |-> Undefined,
   lastTracks |-> Undefined, preferredGenres |-> Undefined, energyLevel |-> Undefined]
ContextOf(sessionId) ==
  IF sessionId \in DOMAIN sessionContext THEN sessionContext[sessionId] ELSE EmptyContext

Abs(x) == IF x < 0 THEN -x ELSE x
Min(a, b) == IF a < b THEN a ELSE b

\* Array.slice(from, to), indices from 0
Slice(seq, from, to) == SubSeq(seq, from + 1, Min(to, Len(seq)))

\* Array.sort((a, b) => b.score - a.score): descending and stable
InsertByScore(sorted, x) ==
  LET k == Cardinality({i \in 1..Len(sorted) : sorted[i].score >= x.score})
  IN SubSeq(sorted, 1, k) \o <<x>> \o SubSeq(sorted, k + 1, Len(sorted))

RECURSIVE SortByScore(_)
SortByScore(seq) ==
  IF seq = <<>> THEN <<>>
  ELSE InsertByScore(SortByScore(SubSeq(seq, 1, Len(seq) - 1)), seq[Len(seq)])

Rec(trackId, score, reason) == [trackId |-> trackId, score |-> score, reason |-> reason]

\* calculateContentSimilarity that normalises the era difference by a decade
calculateContentSimilarity_EraPerDecade(features1, features2) ==
  LET genres == IF features1.genre = features2.genre THEN 1000 ELSE 0
      eras == 1000 - (Abs(features1.era - features2.era) * 1000) \div 10
      energy == 1000 - Abs(features1.energy - features2.energy)
      valence == 1000 - Abs(features1.valence - features2.valence)
      tempo == 1000 - (Abs(features1.tempo - features2.tempo) * 1000) \div 100
  IN (genres * 3 + eras * 2 + energy * 2 + valence * 2 + tempo * 1) \div 10

calculateContentSimilarity(features1, features2) ==
  LET genres == IF features1.genre = features2.genre THEN 1000 ELSE 0
      eras == 1000 - (Abs(features1.era - features2.era) * 1000) \div 50
      energy == 1000 - Abs(features1.energy - features2.energy)
      valence == 1000 - Abs(features1.valence - features2.valence)
      tempo == 1000 - (Abs(features1.tempo - features2.tempo) * 1000) \div 100
  IN (genres * 3 + eras * 2 + energy * 2 + valence * 2 + tempo * 1) \div 10

\* calculatePreferenceVector: the genre of the vector is a Map, which is equal
\* to no genre of a track
GenreMap == "[object Map]"

calculatePreferenceVector(catalog, preferences) ==
  LET rated == SelectSeq(catalog, LAMBDA en : /\ en.trackId \in DOMAIN preferences
                                              /\ preferences[en.trackId] >= 3)
      score(i) == preferences[rated[i].trackId]
      count == SumSeq([i \in 1..Len(rated) |-> score(i)])
      Mean(weighted) == IF count > 0 THEN SumSeq(weighted) \div count ELSE 0
  IN Features(GenreMap,
              Mean([i \in 1..Len(rated) |-> rated[i].features.era * score(i)]),
              Mean([i \in 1..Len(rated) |-> rated[i].features.energy * score(i)]),
              Mean([i \in 1..Len(rated) |-> rated[i].features.valence * score(i)]),
              Mean([i \in 1..Len(rated) |-> rated[i].features.tempo * score(i)]))

calculateContextBoost(features, context) ==
  LET genreBoost == IF /\ context.preferredGenres # Undefined
                       /\ \E i \in 1..Len(context.preferredGenres[1]) :
                            context.preferredGenres[1][i] = features.genre
                    THEN 300 ELSE 0
      energyBoost == IF /\ Truthy(context.energyLevel)
                        /\ Abs(context.energyLevel[1] - features.energy) < 200
                     THEN 200 ELSE 0
  IN Min(1000 + genreBoost + energyBoost, 2000)

\* the entries of a Map of scores, as a sequence
RECURSIVE EntriesOf(_)
EntriesOf(userPrefs) ==
  IF DOMAIN userPrefs = {} THEN <<>>
  ELSE LET t == CHOOSE x \in DOMAIN userPrefs : TRUE
       IN <<[trackId |-> t, score |-> userPrefs[t]]>> \o EntriesOf(MapDelete(userPrefs, t))

RECURSIVE Concat(_)
Concat(seqs) == IF seqs = <<>> THEN <<>> ELSE Head(seqs) \o Concat(Tail(seqs))

getCollaborativeRecommendations(preferences, profileId, count) ==
  LET similarUsers == IF profileId \in DOMAIN collaborativeModel
                      THEN collaborativeModel[profileId] ELSE <<>>
      HighRated(similarUser) ==
        LET userPrefs == IF similarUser.userId \in DOMAIN preferences
                         THEN preferences[similarUser.userId] ELSE EmptyMap
            liked == SelectSeq(EntriesOf(userPrefs), LAMBDA en : en.score >= 4)
        IN [i \in 1..Len(liked) |->
              Rec(liked[i].trackId, (liked[i].score * similarUser.similarity) \div 1000,
                  "collaborative")]
      recommendations ==
        Concat([i \in 1..Min(5, Len(similarUsers)) |-> HighRated(similarUsers[i])])
  IN Slice(SortByScore(recommendations), 0, count)

\* preferences is the Map of the profile
getContentBasedRecommendations(catalog, context, preferences, count) ==
  LET preferenceVector == calculatePreferenceVector(catalog, preferences)
      recommendations ==
        [i \in 1..Len(catalog) |->
           Rec(catalog[i].trackId,
               (calculateContentSimilarity(preferenceVector, catalog[i].features)
                  * calculateContextBoost(catalog[i].features, context)) \div 1000,
               "content")]
  IN Slice(SortByScore(recommendations), 0, count)

\* a > n, false when a is undefined
Gt(a, n) == a # <<>> /\ a[1] > n
Lt(a, n) == a # <<>> /\ a[1] < n

Includes(list, x) == \E i \in 1..Len(list) : list[i] = x

getContextualRecommendations(catalog, context, count) ==
  LET played(en) == /\ context.lastTracks # Undefined
                    /\ Includes(context.lastTracks[1], en.trackId)
      candidates == SelectSeq(catalog, LAMBDA en : ~played(en))
      Score(f) ==
        500
        + (IF context.timeOfDay = <<"morning">> /\ f.energy > 500 THEN 200 ELSE 0)
        + (IF context.timeOfDay = <<"evening">> /\ f.energy < 500 THEN 200 ELSE 0)
        + (IF Gt(context.sessionDuration, 30 * 60 * 1000) THEN (f.valence * 3) \div 10 ELSE 0)
        + (IF Gt(context.averageReaction, 3500) /\ f.valence > 600 THEN 300 ELSE 0)
        - (IF Lt(context.averageReaction, 2500) /\ f.valence < 400 THEN 200 ELSE 0)
      recommendations ==
        [i \in 1..Len(candidates) |->
           Rec(candidates[i].trackId, Score(candidates[i].features), "contextual")]
  IN Slice(SortByScore(recommendations), 0, count)

\* Weights are tenths, so that the scores of a combined list are in
\* ten-thousandths.
Source(recommendations, weight) == [recommendations |-> recommendations, weight |-> weight]

\* the entries of the sources in the order of the two loops, each with its
\* weighted score
Weighted(sources) ==
  Concat([k \in 1..Len(sources) |->
            [i \in 1..Len(sources[k].recommendations) |->
               Rec(sources[k].recommendations[i].trackId,
                   sources[k].recommendations[i].score * sources[k].weight,
                   sources[k].recommendations[i].reason)]])

\* combined.get / combined.set of one entry after the other
RECURSIVE MergeInto(_, _)
MergeInto(combined, entries) ==
  IF entries = <<>> THEN combined
  ELSE LET rec == Head(entries)
           i == FirstIndex(combined, LAMBDA existing : existing.trackId = rec.trackId)
       IN MergeInto(IF i # 0
                    THEN [combined EXCEPT ![i].score = @ + rec.score,
                                          ![i].reasons = Append(@, rec.reason)]
                    ELSE Append(combined, [trackId |-> rec.trackId, score |-> rec.score,
                                           reasons |-> <<rec.reason>>]),
                    Tail(entries))

\* combineRecommendations that sorts by ascending score
combineRecommendations_Ascending(sources) ==
  LET sorted == SortByScore(MergeInto(<<>>, Weighted(sources)))
  IN [i \in 1..Len(sorted) |-> sorted[Len(sorted) + 1 - i]]

combineRecommendations(sources) == SortByScore(MergeInto(<<>>, Weighted(sources)))

CollaborativeWeight == 4
ContentWeight == 4
ContextWeight == 2

\* what an engine call gives: the list it returns, or the error it throws
Returned(recommendations) == [error |-> None, recommendations |-> recommendations]
Thrown(error) == [error |-> error, recommendations |-> <<>>]

\* preferences is the Preference Model; profileId is None when the caller
\* gives none (the parameter defaults to null)
getSessionRecommendations(catalog, preferences, sessionId, profileId) ==
  LET context == ContextOf(sessionId)
      userPrefs == IF profileId # None
                   THEN (IF profileId \in DOMAIN preferences
                         THEN <<preferences[profileId]>> ELSE Undefined)
                   ELSE <<EmptyMap>>
  IN IF Len(userPrefs) = 0
     THEN Thrown("TypeError: preferences is not iterable")
     ELSE LET collaborativeRecs == getCollaborativeRecommendations(preferences, profileId, 5)
              contentRecs == getContentBasedRecommendations(catalog, context, userPrefs[1], 5)
              contextRecs == getContextualRecommendations(catalog, context, 5)
              combinedRecs == combineRecommendations(
                                <<Source(collaborativeRecs, CollaborativeWeight),
                                  Source(contentRecs, ContentWeight),
                                  Source(contextRecs, ContextWeight)>>)
          IN Returned(Slice(combinedRecs, 0, 10))

getSimilarTracks(catalog, targetFeatures, count) ==
  LET similarities ==
        [i \in 1..Len(catalog) |->
           Rec(catalog[i].trackId,
               calculateContentSimilarity(targetFeatures, catalog[i].features), "similar")]
  IN Slice(SortByScore(similarities), 1, count + 1)

getContrastingTracks(catalog, targetFeatures, count) ==
  LET contrasts ==
        [i \in 1..Len(catalog) |->
           Rec(catalog[i].trackId,
               1000 - calculateContentSimilarity(targetFeatures, catalog[i].features),
               "contrasting")]
  IN Slice(SortByScore(contrasts), 0, count)

\* 0.5 + Math.random() * 0.3: the least and (nearly) the greatest value
RandomScores == {500, 799}

\* one track of each group with a random score, for every outcome of Math.random
RECURSIVE DiversePicks(_)
DiversePicks(groups) ==
  IF groups = <<>> THEN {<<>>}
  ELSE {<<Rec(t, s, "diverse")>> \o rest :
          t \in Head(groups), s \in RandomScores, rest \in DiversePicks(Tail(groups))}

\* the lists getDiverseRecommendations can return
getDiverseRecommendations(catalog, sessionId, profileId, count) ==
  LET context == ContextOf(sessionId)
      playedTracks == IF context.lastTracks # Undefined THEN context.lastTracks[1] ELSE <<>>
      candidates == SelectSeq(catalog, LAMBDA en : ~Includes(playedTracks, en.trackId))
      Key(en) == <<en.features.genre, (en.features.era \div 10) * 10>>
      \* the first track of each group, in the order of the Map of the groups
      firsts == {i \in 1..Len(candidates) :
                   \A j \in 1..(i - 1) : Key(candidates[j]) # Key(candidates[i])}
      RECURSIVE GroupsFrom(_)
      GroupsFrom(i) ==
        IF i > Len(candidates) THEN <<>>
        ELSE (IF i \in firsts
              THEN <<{candidates[j].trackId : j \in {k \in 1..Len(candidates) :
                                                     Key(candidates[k]) = Key(candidates[i])}}>>
              ELSE <<>>) \o GroupsFrom(i + 1)
  IN DiversePicks(Slice(GroupsFrom(1), 0, count))

\* getAdaptiveRecommendations that looks at the intensity only
getAdaptiveRecommendations_IntensityOnly(catalog, preferences, sessionId, profileId, lastReaction) ==
  LET features == FeaturesOf(catalog, lastReaction.trackId)
  IN IF features = Undefined
     THEN {getSessionRecommendations(catalog, preferences, sessionId, profileId)}
     ELSE IF Geq(lastReaction.intensity, 4)
          THEN {Returned(getSimilarTracks(catalog, features[1], 5))}
          ELSE IF Leq(lastReaction.intensity, 2)
               THEN {Returned(getContrastingTracks(catalog, features[1], 5))}
               ELSE {Returned(l) : l \in getDiverseRecommendations(catalog, sessionId,
                                                                  profileId, 5)}

\* the outcomes getAdaptiveRecommendations can have: one, unless it draws
\* random numbers
getAdaptiveRecommendations(catalog, preferences, sessionId, profileId, lastReaction) ==
  LET features == FeaturesOf(catalog, lastReaction.trackId)
  IN IF features = Undefined
     THEN {getSessionRecommendations(catalog, preferences, sessionId, profileId)}
     ELSE IF IsPositive(lastReaction)
          THEN {Returned(getSimilarTracks(catalog, features[1], 5))}
          ELSE IF IsNegative(lastReaction)
               THEN {Returned(getContrastingTracks(catalog, features[1], 5))}
               ELSE {Returned(l) : l \in getDiverseRecommendations(catalog, sessionId,
                                                                  profileId, 5)}

\* processReaction that asks for the recommendations before it writes the score
processReaction_StalePreferences(preferences, sessionId, reactionData) ==
  LET score == reactionToScore(reactionData.reaction, reactionData.intensity)
  IN [preferences |-> updateUserPreferencesWithScore(preferences, reactionData.profileId,
                                                     reactionData.trackId, score),
      events |-> <<RealtimeReactionEvent(sessionId, reactionData)>>,
      score |-> score,
      nextTracks |-> getAdaptiveRecommendations(trackFeatures, preferences, sessionId,
                                                reactionData.profileId, reactionData)]

\* processReaction: the Preference Model after the call, the events published
\* and the outcomes of getAdaptiveRecommendations
processReaction(preferences, sessionId, reactionData) ==
  LET score == reactionToScore(reactionData.reaction, reactionData.intensity)
      preferences1 == updateUserPreferencesWithScore(preferences, reactionData.profileId,
                                                     reactionData.trackId, score)
  IN [preferences |-> preferences1,
      events |-> <<RealtimeReactionEvent(sessionId, reactionData)>>,
      score |-> score,
      nextTracks |-> getAdaptiveRecommendations(trackFeatures, preferences1, sessionId,
                                                reactionData.profileId, reactionData)]

(***************************************************************************)
(* State machine.                                                          *)
(***************************************************************************)
Op(op, sessionId, userId, profileId, connectionId, reaction, error) ==
  [op |-> op, sid |-> sessionId, uid |-> userId, pid |-> profileId,
   cid |-> connectionId, reaction |-> reaction, error |-> error]

\* no request or message has been answered
NoReply == [type |-> None, error |-> None, recommendations |-> <<>>]
NoArgs == <<>>

\* recommendations$ before anything subscribes to it: combineLatest and
\* debounceTime(500) hold nothing
NoSubscription ==
  [subscribed |-> FALSE, pending |-> <<>>, burst |-> 0, lastReaction |-> <<>>,
   subscriptions |-> 0]
Reply(type, recommendations) ==
  [type |-> type, error |-> None, recommendations |-> recommendations]
Failure(type, error) == [type |-> type, error |-> error, recommendations |-> <<>>]

InitState ==
  /\ activeSessions = EmptyMap
  /\ userSessions = EmptyMap
  /\ userPreferences = EmptyMap
  /\ connections = EmptyMap
  /\ wsPending = EmptyMap
  /\ timerQ = <<>>
  /\ submitted = 0
  /\ now = 0
  /\ recommendationsStream = NoSubscription
  /\ wsBurst = EmptyMap
  /\ reply = NoReply
  /\ published = <<>>
  /\ lastOp = Op("init", None, None, None, None, None, None)

Init == InitState /\ args = NoArgs

\* the effect of a manager method on the two tables and the event feed
Returns(r) ==
  /\ activeSessions' = r.sessions
  /\ userSessions' = r.users
  /\ published' = r.events
  /\ reply' = NoReply

CreateSession(sessionId) ==
  /\ Returns(createSession(activeSessions, userSessions, sessionId))
  /\ lastOp' = Op("createSession", sessionId, None, None, None, None, None)
  /\ UNCHANGED <<userPreferences, wsVars, submitted, fixedVars>>

JoinSession(sessionId, userId, profileId, connectionId) ==
  LET userInfo == [userId |-> userId, profileId |-> profileId, connectionId |-> connectionId]
      r == joinSession(activeSessions, userSessions, sessionId, userInfo)
  IN /\ Returns(r)
     /\ lastOp' = Op("joinSession", sessionId, userId, profileId, connectionId, None, r.error)
     /\ UNCHANGED <<userPreferences, wsVars, submitted, fixedVars>>

LeaveSession(sessionId, connectionId) ==
  /\ Returns(leaveSession(activeSessions, userSessions, sessionId, connectionId))
  /\ lastOp' = Op("leaveSession", sessionId, None, None, connectionId, None, None)
  /\ UNCHANGED <<userPreferences, wsVars, submitted, fixedVars>>

EndSession(sessionId) ==
  /\ Returns(endSession(activeSessions, userSessions, sessionId))
  /\ lastOp' = Op("endSession", sessionId, None, None, None, None, None)
  /\ UNCHANGED <<userPreferences, wsVars, submitted, fixedVars>>

UpdateUserReaction(sessionId, reactionData) ==
  /\ sessionId \in DOMAIN activeSessions
       => Len(activeSessions[sessionId].reactions) < MaxReactions
  /\ Returns(updateUserReaction(activeSessions, userSessions, sessionId, reactionData, now))
  /\ lastOp' = Op("updateUserReaction", sessionId, None, reactionData.profileId, None,
                  reactionData, None)
  /\ UNCHANGED <<userPreferences, wsVars, submitted, fixedVars>>

UpdateCurrentTrack(sessionId, trackId) ==
  /\ sessionId \in DOMAIN activeSessions
       => activeSessions[sessionId].metrics.tracksPlayed < MaxTracksPlayed
  /\ Returns(updateCurrentTrack(activeSessions, userSessions, sessionId, trackId))
  /\ lastOp' = Op("updateCurrentTrack", sessionId, None, None, None,
                  [trackId |-> trackId], None)
  /\ UNCHANGED <<userPreferences, wsVars, submitted, fixedVars>>

\* reaction payloads of the direct calls of updateUserReaction
Reaction(trackId, reaction, intensity, profileId, seq) ==
  [trackId |-> trackId, reaction |-> reaction, intensity |-> intensity,
   profileId |-> profileId, seq |-> seq, timestamp |-> 0]

\* a reaction of the profile of the participants and one of a profile that is
\* no participant's
ManagerReactions ==
  {Reaction("track1", "like", NoIntensity, "p1", 0),
   Reaction("track1", "dislike", NoIntensity, "p2", 0)}

Next ==
  \/ \E s \in SessionIds : CreateSession(s)
  \/ \E s \in SessionIds, u \in UserIds, p \in JoiningProfiles, c \in ConnIds :
       JoinSession(s, u, p, c)
  \/ \E s \in SessionIds, c \in ConnIds : LeaveSession(s, c)
  \/ \E s \in SessionIds : EndSession(s)
  \/ \E s \in ReactingSessions, rd \in ManagerReactions : UpdateUserReaction(s, rd)
  \/ \E s \in ReactingSessions, t \in {"track1"} : UpdateCurrentTrack(s, t)

Spec == Init /\ [][Next]_vars

(***************************************************************************)
(* Properties of the session lifecycle.                                    *)
(***************************************************************************)
CountOf(events, type, s) ==
  Cardinality({i \in 1..Len(events) : events[i].type = type /\ events[i].sessionId = s})

\* C11: endSession(S) for a session in the store removes it and publishes
\* exactly one SESSION_ENDED for S; for a session that is absent it changes
\* neither table and publishes nothing.  No step publishes SESSION_ENDED for S
\* more than once, and a step that publishes it starts with S in the store and
\* ends with S absent, so that S must be created again before the next one.
C11_SessionEndedOncePerCreation ==
  [][/\ \A s \in SessionIds :
          /\ CountOf(published', "SESSION_ENDED", s) <= 1
          /\ CountOf(published', "SESSION_ENDED", s) = 1
               => s \in DOMAIN activeSessions /\ s \notin DOMAIN activeSessions'
     /\ lastOp'.op = "endSession"
          => IF lastOp'.sid \in DOMAIN activeSessions
             THEN /\ lastOp'.sid \notin DOMAIN activeSessions'
                  /\ CountOf(published', "SESSION_ENDED", lastOp'.sid) = 1
             ELSE /\ activeSessions' = activeSessions
                  /\ userSessions' = userSessions
                  /\ published' = <<>>]_vars

\* endSession has ended the only session of the store
C11_Witness ==
  /\ lastOp.op = "endSession"
  /\ CountOf(published, "SESSION_ENDED", lastOp.sid) = 1
  /\ lastOp.sid \notin DOMAIN activeSessions
  /\ activeSessions = EmptyMap

\* C12 as stated: every user id is a participant of at most one session of
\* the store.
C12_UserInAtMostOneSession ==
  \A u \in UserIds :
    Cardinality({s \in DOMAIN activeSessions :
                   \E i \in 1..Len(activeSessions[s].participants) :
                     activeSessions[s].participants[i].userId = u}) <= 1

(***************************************************************************)
(* Reaction ingestion: the REST reaction route and the USER_REACTION       *)
(* handler of a session WebSocket.                                         *)
(*                                                                         *)
(* A reaction is submitted when the request or the message arrives; seq is *)
(* its submission number.  The route handles it at once.  The WebSocket    *)
(* passes it through debounceTime(300): a message replaces the pending one *)
(* of its connection and restarts the timer, and the handler runs when the *)
(* timer expires.  All timers have the same delay, so they expire in the   *)
(* order of timerQ.  The engine awaits no I/O, so a handler runs to its    *)
(* end before the next request, message or timer is served.                *)
(***************************************************************************)
\* body of POST /:sessionId/reaction as the schema of the route admits it
RestIntensities == {NoIntensity} \cup {<<i>> : i \in 1..5}
RestPayloads ==
  {Reaction("track1", r, i, "p1", 0) : r \in Sentiments, i \in RestIntensities}

\* a USER_REACTION message is any JSON: no check of the intensity is made
WsIntensities == {NoIntensity, <<-1>>, <<0>>, <<1>>, <<5>>, <<6>>}
WsPayloads ==
  {Reaction("track1", r, i, "p1", 0) : r \in Sentiments, i \in WsIntensities}

\* payloads of the ordering specification: they differ in nothing but seq
PlainPayloads == {Reaction("track1", "like", NoIntensity, "p1", 0)}

WithoutConn(q, c) == SelectSeq(q, LAMBDA x : x # c)
IsOpen(c) == c \in DOMAIN connections /\ connections[c].open

\* fastify.get('/ws/session/:sessionId'): a connection with a fresh id; the
\* handler subscribes the three message streams and starts the sessionUpdates
\* interval
WsOpen(c, sessionId) ==
  /\ c \notin DOMAIN connections
  /\ connections' = MapSet(connections, c,
                           [sessionId |-> sessionId, open |-> TRUE, sessionUpdates |-> TRUE])
  /\ published' = <<>>
  /\ lastOp' = Op("wsOpen", sessionId, None, None, c, None, None)
  /\ reply' = NoReply
  /\ UNCHANGED <<activeSessions, userSessions, userPreferences, wsPending, timerQ, wsBurst,
                 submitted, fixedVars>>

\* a debounce that keeps the first message of a burst
WsUserReaction_KeepFirst(c, payload, limit) ==
  /\ IsOpen(c)
  /\ submitted < limit
  /\ submitted' = submitted + 1
  /\ wsPending' = IF c \in DOMAIN wsPending THEN wsPending
                  ELSE MapSet(wsPending, c, [payload EXCEPT !.seq = submitted + 1])
  /\ timerQ' = Append(WithoutConn(timerQ, c), c)
  /\ wsBurst' = MapSet(wsBurst, c,
                       (IF c \in DOMAIN wsPending THEN wsBurst[c] ELSE <<>>)
                         \o <<[payload EXCEPT !.seq = submitted + 1]>>)
  /\ published' = <<>>
  /\ reply' = NoReply
  /\ lastOp' = Op("wsMessage", connections[c].sessionId, None, payload.profileId, c,
                  [payload EXCEPT !.seq = submitted + 1], None)
  /\ UNCHANGED <<activeSessions, userSessions, userPreferences, connections, fixedVars>>

\* a USER_REACTION message arrives: debounceTime keeps it and restarts the timer
WsUserReaction(c, payload, limit) ==
  /\ IsOpen(c)
  /\ submitted < limit
  /\ submitted' = submitted + 1
  /\ wsPending' = MapSet(wsPending, c, [payload EXCEPT !.seq = submitted + 1])
  /\ timerQ' = Append(WithoutConn(timerQ, c), c)
  /\ wsBurst' = MapSet(wsBurst, c,
                       (IF c \in DOMAIN wsPending THEN wsBurst[c] ELSE <<>>)
                         \o <<[payload EXCEPT !.seq = submitted + 1]>>)
  /\ published' = <<>>
  /\ reply' = NoReply
  /\ lastOp' = Op("wsMessage", connections[c].sessionId, None, payload.profileId, c,
                  [payload EXCEPT !.seq = submitted + 1], None)
  /\ UNCHANGED <<activeSessions, userSessions, userPreferences, connections, fixedVars>>

\* what the engine gets from the WebSocket handler: intensity: intensity || 3
WsEngineReaction(msg) == [msg EXCEPT !.intensity = Or(@, <<DefaultScore>>)]

\* the debounce timer that expires first fires: the switchMap handler
\* processes the reaction in the engine and then records it in the manager
DebounceFires ==
  /\ timerQ # <<>>
  /\ LET c == Head(timerQ)
         msg == [wsPending[c] EXCEPT !.timestamp = now]
         sessionId == connections[c].sessionId
         engine == processReaction(userPreferences, sessionId, WsEngineReaction(msg))
         manager == updateUserReaction(activeSessions, userSessions, sessionId, msg, now)
     IN /\ userPreferences' = engine.preferences
        /\ wsPending' = MapDelete(wsPending, c)
        /\ timerQ' = Tail(timerQ)
        /\ \E response \in engine.nextTracks :
             IF response.error = None
             THEN /\ activeSessions' = manager.sessions
                  /\ userSessions' = manager.users
                  /\ published' = engine.events \o manager.events
                  /\ reply' = Reply("REACTION_PROCESSED", response.recommendations)
                  /\ lastOp' = Op("wsReaction", sessionId, None, msg.profileId, c, msg, None)
             ELSE \* the catch of the handler: the manager is not called
                  /\ UNCHANGED managerVars
                  /\ published' = engine.events
                  /\ reply' = Failure("REACTION_ERROR", response.error)
                  /\ lastOp' = Op("wsReaction", sessionId, None, msg.profileId, c, msg,
                                  response.error)
  /\ UNCHANGED <<connections, wsBurst, submitted, fixedVars>>

\* a close handler without clearInterval(sessionUpdates)
WsClose_KeepsInterval(c) ==
  /\ IsOpen(c)
  /\ connections' = [connections EXCEPT ![c].open = FALSE]
  /\ wsPending' = MapDelete(wsPending, c)
  /\ timerQ' = WithoutConn(timerQ, c)
  /\ wsBurst' = MapDelete(wsBurst, c)
  /\ Returns(leaveSession(activeSessions, userSessions, connections[c].sessionId, c))
  /\ lastOp' = Op("wsClose", connections[c].sessionId, None, None, c, None, None)
  /\ UNCHANGED <<userPreferences, submitted, fixedVars>>

\* the socket closes: takeUntil(disconnect$) drops the pending message and
\* the close handler clears the sessionUpdates interval and leaves the session
WsClose(c) ==
  /\ IsOpen(c)
  /\ connections' = [connections EXCEPT ![c].open = FALSE, ![c].sessionUpdates = FALSE]
  /\ wsPending' = MapDelete(wsPending, c)
  /\ timerQ' = WithoutConn(timerQ, c)
  /\ wsBurst' = MapDelete(wsBurst, c)
  /\ Returns(leaveSession(activeSessions, userSessions, connections[c].sessionId, c))
  /\ lastOp' = Op("wsClose", connections[c].sessionId, None, None, c, None, None)
  /\ UNCHANGED <<userPreferences, submitted, fixedVars>>

\* POST /:sessionId/reaction: the manager records, then the engine processes
RestReaction(sessionId, payload, limit) ==
  /\ submitted < limit
  /\ submitted' = submitted + 1
  /\ LET reactionData == [payload EXCEPT !.seq = submitted + 1, !.timestamp = now]
         manager == updateUserReaction(activeSessions, userSessions, sessionId,
                                       reactionData, now)
         engine == processReaction(userPreferences, sessionId, reactionData)
     IN /\ activeSessions' = manager.sessions
        /\ userSessions' = manager.users
        /\ userPreferences' = engine.preferences
        /\ published' = manager.events \o engine.events
        /\ \E result \in engine.nextTracks :
             /\ reply' = IF result.error = None
                         THEN Reply("200", result.recommendations)
                         ELSE Failure("500", result.error)
             /\ lastOp' = Op("restReaction", sessionId, None, payload.profileId, None,
                             reactionData, result.error)
  /\ UNCHANGED <<wsVars, fixedVars>>

\* a recommendations route that adds Math.random() * 0.3 (in ten-thousandths)
\* to the score of the first track
GetRecommendations_RandomBoost(sessionId, profileId) ==
  LET recommendations == getSessionRecommendations(trackFeatures, userPreferences,
                                                   sessionId, profileId)
  IN /\ \E random \in {0, 2990} :
          reply' = IF recommendations.error # None
                   THEN Failure("500", recommendations.error)
                   ELSE IF recommendations.recommendations = <<>>
                   THEN Reply("200", <<>>)
                   ELSE Reply("200", [recommendations.recommendations
                                        EXCEPT ![1].score = @ + random])
     /\ published' = <<>>
     /\ lastOp' = Op("getRecommendations", sessionId, None, profileId, None, None,
                     recommendations.error)
     /\ UNCHANGED <<managerVars, userPreferences, wsVars, submitted, fixedVars>>

\* GET /:sessionId/recommendations; profileId is None when the query has none
GetRecommendations(sessionId, profileId) ==
  LET recommendations == getSessionRecommendations(trackFeatures, userPreferences,
                                                   sessionId, profileId)
  IN /\ reply' = IF recommendations.error = None
                 THEN Reply("200", recommendations.recommendations)
                 ELSE Failure("500", recommendations.error)
     /\ published' = <<>>
     /\ lastOp' = Op("getRecommendations", sessionId, None, profileId, None, None,
                     recommendations.error)
     /\ UNCHANGED <<managerVars, userPreferences, wsVars, submitted, fixedVars>>

\* a decay time of the engagement passes
Tick ==
  /\ now < MaxClock
  /\ now' = now + 1
  /\ published' = <<>>
  /\ reply' = NoReply
  /\ lastOp' = Op("tick", None, None, None, None, None, None)
  /\ UNCHANGED <<managerVars, userPreferences, wsVars, submitted, args, recommendationsStream>>

\* the session the ingestion specifications create; a reaction for the other
\* id is one for a session that is not in the store
IngestSessions == {"s1"}

NextIngest(restPayloads, wsPayloads, limit) ==
  \/ \E s \in IngestSessions : CreateSession(s)
  \/ \E s \in IngestSessions, c \in ConnIds : JoinSession(s, "u1", "p1", c)
  \/ \E c \in ConnIds, s \in SessionIds : WsOpen(c, s)
  \/ \E c \in ConnIds : WsClose(c)
  \/ \E c \in ConnIds, m \in wsPayloads : WsUserReaction(c, m, limit)
  \/ DebounceFires
  \/ \E s \in SessionIds, b \in restPayloads : RestReaction(s, b, limit)

NextOrder == NextIngest(PlainPayloads, PlainPayloads, MaxSubmissions)
SpecOrder == Init /\ [][NextOrder]_vars

NextScore == NextIngest(RestPayloads, WsPayloads, MaxScored)
SpecScore == Init /\ [][NextScore]_vars

\* The recommendation specification: a session whose track changes, the
\* reactions of one profile, and requests for the recommendations of every
\* session and profile.
RecommendPayloads ==
  {Reaction(t, r, NoIntensity, "p1", 0) : t \in TrackIds, r \in {"like", "dislike"}}

NextRecommend ==
  \/ CreateSession("s1")
  \/ JoinSession("s1", "u1", "p1", "c1")
  \/ UpdateCurrentTrack("s1", "track1")
  \/ \E b \in RecommendPayloads : RestReaction("s1", b, MaxRecommended)
  \/ \E s \in SessionIds, p \in ProfileIds \cup {None} : GetRecommendations(s, p)
SpecRecommend == Init /\ [][NextRecommend]_vars

\* The adaptive specification: reactions on both paths, of every sentiment,
\* for a track of the Feature Store and for one that is not in it.
AdaptiveIntensities == {NoIntensity, <<1>>, <<5>>}
AdaptivePayloads ==
  {Reaction(t, r, i, "p1", 0) : t \in TrackIds, r \in Sentiments, i \in AdaptiveIntensities}

NextAdaptive ==
  \/ CreateSession("s1")
  \/ WsOpen("c1", "s1")
  \/ \E m \in AdaptivePayloads : WsUserReaction("c1", m, MaxAdaptive)
  \/ DebounceFires
  \/ \E b \in AdaptivePayloads : RestReaction("s1", b, MaxAdaptive)
SpecAdaptive == Init /\ [][NextAdaptive]_vars

\* The combination specification: combineRecommendations and the truncation
\* of getSessionRecommendations on their own, for strategy lists drawn from
\* short lists over two tracks (a track may occur twice in a list, as it can
\* in the collaborative one) and from lists of five tracks that overlap.
MaxShort == 2
CombineTracks == {"track1", "track2"}
CombineScores == {-300, 900}
LongTracks == <<"t1", "t2", "t3", "t4", "t5", "t6", "t7", "t8", "t9", "t10", "t11", "t12">>

ShortLists(reason) ==
  UNION {[1..n -> {Rec(t, s, reason) : t \in CombineTracks, s \in CombineScores}] :
           n \in 0..MaxShort}
\* five tracks of LongTracks after the first skip ones, by descending score
LongList(skip, reason) == [i \in 1..5 |-> Rec(LongTracks[skip + i], 1000 - 100 * i, reason)]

CombineArgs ==
  [collaborativeRecs : ShortLists("collaborative") \cup {LongList(0, "collaborative")},
   contentRecs : ShortLists("content") \cup {LongList(3, "content")},
   contextRecs : ShortLists("contextual") \cup {LongList(7, "contextual")}]

\* music-engine.js 135-142: combine the three lists and return the top 10
Combine ==
  /\ lastOp.op = "init"
  /\ LET combinedRecs == combineRecommendations(
                            <<Source(args.collaborativeRecs, CollaborativeWeight),
                              Source(args.contentRecs, ContentWeight),
                              Source(args.contextRecs, ContextWeight)>>)
     IN reply' = [type |-> "combined", error |-> None, combinedRecs |-> combinedRecs,
                  recommendations |-> Slice(combinedRecs, 0, 10)]
  /\ published' = <<>>
  /\ lastOp' = Op("combineRecommendations", None, None, None, None, None, None)
  /\ UNCHANGED <<managerVars, userPreferences, wsVars, submitted, fixedVars>>

InitCombine == InitState /\ args \in CombineArgs
NextCombine == Combine
SpecCombine == InitCombine /\ [][NextCombine]_vars

\* The similarity specification: adaptive mode after a like, for Feature
\* Stores drawn from the short catalogs over three feature records (two
\* tracks may have the same features) and one catalog of seven tracks.
MaxCatalog == 3
CatalogIds == <<"a", "b", "c", "d">>   \* one id for each place of a short catalog
CatalogFeatures ==
  {Features("classical", 1960, 300, 700, 80),
   Features("classical", 1940, 200, 900, 70),
   Features("folk", 1970, 500, 800, 100)}
ShortCatalogs ==
  UNION {{[i \in 1..n |-> Entry(CatalogIds[i], f[i])] : f \in [1..n -> CatalogFeatures]} :
           n \in 1..MaxCatalog}
LongCatalog ==
  trackFeatures \o <<Entry("track6", Features("folk", 1980, 700, 400, 110)),
                     Entry("track7", Features("jazz", 1930, 100, 300, 60))>>
SimilarArgs ==
  UNION {{[catalog |-> c, trackId |-> c[i].trackId] : i \in 1..Len(c)} :
           c \in ShortCatalogs \cup {LongCatalog}}

\* processReaction of a like for a track of the catalog: the adaptive mode
Similar ==
  /\ lastOp.op = "init"
  /\ LET reactionData == Reaction(args.trackId, "like", NoIntensity, "p1", 0)
         preferences == updateUserPreferencesWithScore(EmptyMap, "p1", args.trackId, 4)
     IN \E result \in getAdaptiveRecommendations(args.catalog, preferences, "s1", "p1",
                                                 reactionData) :
          /\ reply' = Reply("adaptive", result.recommendations)
          /\ lastOp' = Op("getAdaptiveRecommendations", "s1", None, "p1", None,
                          reactionData, result.error)
  /\ published' = <<>>
  /\ UNCHANGED <<managerVars, userPreferences, wsVars, submitted, fixedVars>>

InitSimilar == InitState /\ args \in SimilarArgs
NextSimilar == Similar
SpecSimilar == InitSimilar /\ [][NextSimilar]_vars

\* payloads of the engagement specification: the sentiment has no part in the
\* engagement, the intensity is one the path admits
EngageRestPayloads ==
  {Reaction("track1", "neutral", i, "p1", 0) : i \in {NoIntensity, <<1>>, <<5>>}}
EngageWsPayloads ==
  {Reaction("track1", "neutral", i, "p1", 0) : i \in {NoIntensity, <<-1>>, <<6>>}}

\* one participant with one WebSocket, reacting while time passes
NextEngage ==
  \/ CreateSession("s1")
  \/ JoinSession("s1", "u1", "p1", "c1")
  \/ WsOpen("c1", "s1")
  \/ \E m \in EngageWsPayloads : WsUserReaction("c1", m, MaxEngaged)
  \/ DebounceFires
  \/ \E b \in EngageRestPayloads : RestReaction("s1", b, MaxEngaged)
  \/ Tick
SpecEngage == Init /\ [][NextEngage]_vars

(***************************************************************************)
(* Properties of the Session Store.                                        *)
(***************************************************************************)
Participants(sessions, s) == sessions[s].participants
HasConnection(sessions, s, c) ==
  \E i \in 1..Len(Participants(sessions, s)) : Participants(sessions, s)[i].connectionId = c
Published(type, s) ==
  \E i \in 1..Len(published) : published[i].type = type /\ published[i].sessionId = s

\* C1 as stated: in every reachable state every session in the store has at
\* least one participant.
C1_EverySessionHasParticipant ==
  \A s \in DOMAIN activeSessions : Len(Participants(activeSessions, s)) >= 1

\* C1 as amended: a session is in the store without participants only when
\* createSession has just put it there or when it had none in the state
\* before, that is, only as long as nobody has joined it since it was created;
\* no operation leaves in the store a session that it emptied.
C1_OnlyUnjoinedSessionsAreEmpty ==
  [][\A s \in DOMAIN activeSessions' :
       Len(Participants(activeSessions', s)) = 0
         => \/ lastOp'.op = "createSession" /\ lastOp'.sid = s
            \/ s \in DOMAIN activeSessions /\ Len(Participants(activeSessions, s)) = 0]_vars

\* a leave has removed one of several participants and the session is still
\* in the store
C1_Witness ==
  /\ lastOp.op = "leaveSession"
  /\ Published("USER_LEFT", lastOp.sid)
  /\ lastOp.sid \in DOMAIN activeSessions
  /\ Len(Participants(activeSessions, lastOp.sid)) >= 1

\* C2: when leaveSession(S, c) removes the only participant of S, S is absent
\* from the store right after the call: getSession(S) is undefined and
\* getSessionMetrics(S) is null.
C2_EmptiedSessionIsRemoved ==
  [][\A s \in SessionIds, c \in ConnIds :
       ( /\ lastOp'.op = "leaveSession" /\ lastOp'.sid = s /\ lastOp'.cid = c
         /\ s \in DOMAIN activeSessions
         /\ Len(Participants(activeSessions, s)) = 1
         /\ Participants(activeSessions, s)[1].connectionId = c )
       => /\ getSession(activeSessions', s) = Undefined
          /\ getSessionMetrics(activeSessions', s) = Undefined]_vars

\* the last participant has left: USER_LEFT and SESSION_ENDED were published
\* and the session is gone
C2_Witness ==
  /\ lastOp.op = "leaveSession"
  /\ Published("USER_LEFT", lastOp.sid)
  /\ Published("SESSION_ENDED", lastOp.sid)
  /\ getSession(activeSessions, lastOp.sid) = Undefined

\* C3 as stated: a leaveSession(S, c) that directly follows a leaveSession(S, c)
\* changes neither table and publishes nothing.
C3_LeaveIsIdempotent ==
  [][( /\ lastOp.op = "leaveSession" /\ lastOp'.op = "leaveSession"
       /\ lastOp'.sid = lastOp.sid /\ lastOp'.cid = lastOp.cid )
     => /\ activeSessions' = activeSessions
        /\ userSessions' = userSessions
        /\ published' = <<>>]_vars

\* C4: as long as a session stays in the store its reaction list only grows
\* at the end: in every step the list before is a prefix of the list after.
\* A createSession for the id starts another session (with a new list).
C4_ReactionsAppendOnly ==
  [][\A s \in (DOMAIN activeSessions) \cap (DOMAIN activeSessions') :
       \/ lastOp'.op = "createSession" /\ lastOp'.sid = s
       \/ IsPrefix(activeSessions[s].reactions, activeSessions'[s].reactions)]_vars

\* a second, different reaction has been recorded after a first one
C4_Witness ==
  /\ lastOp.op = "updateUserReaction"
  /\ lastOp.sid \in DOMAIN activeSessions
  /\ Len(activeSessions[lastOp.sid].reactions) = 2
  /\ activeSessions[lastOp.sid].reactions[1] # activeSessions[lastOp.sid].reactions[2]

\* C9: joinSession for a session id that is not in the store throws the
\* session-not-found error, leaves both tables as they were and publishes no
\* USER_JOINED.
C9_JoinUnknownSessionFails ==
  [][(lastOp'.op = "joinSession" /\ lastOp'.sid \notin DOMAIN activeSessions)
     => /\ lastOp'.error = "SessionNotFound"
        /\ activeSessions' = activeSessions
        /\ userSessions' = userSessions
        /\ \A i \in 1..Len(published') : published'[i].type # "USER_JOINED"]_vars

\* a join has failed while another session holds participants
C9_Witness ==
  /\ lastOp.op = "joinSession"
  /\ lastOp.error = "SessionNotFound"
  /\ lastOp.sid \notin DOMAIN activeSessions
  /\ userSessions # EmptyMap

\* C10: leaveSession for a session that is not in the store, or for a
\* connection id that no participant of the session has, removes nobody,
\* leaves the index alone, publishes neither USER_LEFT nor SESSION_ENDED and
\* throws nothing.
C10_LeaveUnknownIsNoOp ==
  [][( /\ lastOp'.op = "leaveSession"
       /\ \/ lastOp'.sid \notin DOMAIN activeSessions
          \/ ~HasConnection(activeSessions, lastOp'.sid, lastOp'.cid) )
     => /\ activeSessions' = activeSessions
        /\ userSessions' = userSessions
        /\ \A i \in 1..Len(published') :
              published'[i].type \notin {"USER_LEFT", "SESSION_ENDED"}
        /\ lastOp'.error = None]_vars

\* a leave with a connection id that no participant has, on a session that
\* has participants
C10_Witness ==
  /\ lastOp.op = "leaveSession"
  /\ lastOp.sid \in DOMAIN activeSessions
  /\ Len(Participants(activeSessions, lastOp.sid)) >= 1
  /\ ~HasConnection(activeSessions, lastOp.sid, lastOp.cid)

(***************************************************************************)
(* Properties of reaction ingestion.                                       *)
(***************************************************************************)
IsIngestion(op) == op.op \in {"restReaction", "wsReaction"}

\* C5 as stated: the reactions in session.reactions are in the order in
\* which they were submitted (by increasing submission number), whichever
\* handlers recorded them.
C5_RecordedInSubmissionOrder ==
  \A s \in DOMAIN activeSessions :
    \A i, j \in 1..Len(activeSessions[s].reactions) :
      i < j => activeSessions[s].reactions[i].seq < activeSessions[s].reactions[j].seq

\* C6 as stated: a reaction handled for a session id that is not in the
\* store changes neither table nor the Preference Model and publishes
\* nothing, on the REST route and on the WebSocket.
C6_UnknownSessionReactionIsNoOp ==
  [][(IsIngestion(lastOp') /\ lastOp'.sid \notin DOMAIN activeSessions)
     => /\ activeSessions' = activeSessions
        /\ userSessions' = userSessions
        /\ userPreferences' = userPreferences
        /\ published' = <<>>]_vars

\* C7 as stated: every score in the Preference Model is at least 1 and at
\* most 5.
C7_PreferenceScoresInRange ==
  \A p \in DOMAIN userPreferences :
    \A t \in DOMAIN userPreferences[p] :
      userPreferences[p][t] >= 1 /\ userPreferences[p][t] <= 5

\* C8 as stated: the score written for a handled reaction is its intensity
\* when the payload has one, and otherwise 5 for strongly like, 4 for like,
\* 3 for neutral, 2 for dislike and 1 for strongly dislike.
C8_ScoreIsIntensityOrSentiment ==
  [][IsIngestion(lastOp')
     => LET r == lastOp'.reaction
            expected ==
              IF r.intensity # NoIntensity THEN r.intensity[1]
              ELSE CASE r.reaction = "strongly like" -> 5
                     [] r.reaction = "like" -> 4
                     [] r.reaction = "neutral" -> 3
                     [] r.reaction = "dislike" -> 2
                     [] r.reaction = "strongly dislike" -> 1
        IN /\ r.profileId \in DOMAIN userPreferences'
           /\ r.trackId \in DOMAIN userPreferences'[r.profileId]
           /\ userPreferences'[r.profileId][r.trackId] = expected]_vars

(***************************************************************************)
(* Properties of the engagement of the participants.                       *)
(***************************************************************************)
\* C13 as stated: the current engagement of every participant of every
\* session is at least 0 and at most 5 (5000 thousandths).
C13_EngagementInRange ==
  \A s \in DOMAIN activeSessions :
    \A i \in 1..Len(activeSessions[s].participants) :
      /\ activeSessions[s].participants[i].currentEngagement >= 0
      /\ activeSessions[s].participants[i].currentEngagement <= 5000

(***************************************************************************)
(* Properties of the recommendations.                                      *)
(***************************************************************************)
\* C14 as stated: getRecommendations(sessionId, profileId) returns a list,
\* it never fails, whatever the session id and the profile id.
C14_GetRecommendationsNeverFails ==
  lastOp.op = "getRecommendations" => lastOp.error = None /\ reply.error = None

\* C18 as stated: once updateCurrentTrack(S, t) has been applied, no result
\* of getRecommendations(S, ...) has t with the reason 'contextual'.
C18_PlayedTrackNotContextual ==
  (/\ lastOp.op = "getRecommendations"
   /\ lastOp.sid \in DOMAIN activeSessions
   /\ activeSessions[lastOp.sid].currentTrack # None)
  => \A i \in 1..Len(reply.recommendations) :
       reply.recommendations[i].trackId = activeSessions[lastOp.sid].currentTrack
         => ~Includes(reply.recommendations[i].reasons, "contextual")

\* the weighted score the entries of one strategy list give to track t
Contribution(recommendations, weight, t) ==
  SumSeq([i \in 1..Len(recommendations) |->
            IF recommendations[i].trackId = t THEN recommendations[i].score * weight ELSE 0])

\* C15: the combined list has each track id at most once, the score of a
\* track is the sum of score times weight (0.4 collaborative, 0.4 content,
\* 0.2 contextual) over the strategy entries that propose it, the list is
\* sorted by non-increasing score, and the list returned is its first 10
\* entries at most.
C15_CombinedRankedAndTruncated ==
  lastOp.op = "combineRecommendations" =>
    LET combined == reply.combinedRecs
    IN /\ \A i, j \in 1..Len(combined) :
            combined[i].trackId = combined[j].trackId => i = j
       /\ \A i \in 1..Len(combined) :
            combined[i].score =
              Contribution(args.collaborativeRecs, 4, combined[i].trackId)
              + Contribution(args.contentRecs, 4, combined[i].trackId)
              + Contribution(args.contextRecs, 2, combined[i].trackId)
       /\ \A i \in 1..(Len(combined) - 1) : combined[i].score >= combined[i + 1].score
       /\ Len(reply.recommendations) <= 10
       /\ IsPrefix(reply.recommendations, combined)

\* more than 10 tracks were proposed, one of them by two strategies, and 10
\* are returned
C15_Witness ==
  /\ lastOp.op = "combineRecommendations"
  /\ Len(reply.combinedRecs) > 10
  /\ \E i \in 1..Len(reply.combinedRecs) : Len(reply.combinedRecs[i].reasons) >= 2
  /\ Len(reply.recommendations) = 10

\* C16: after a reaction with the label like or strongly like and no
\* intensity, for a track of the Feature Store, on either path, the reply
\* holds the tracks ranked by their similarity to the reacted track, each with
\* the reason 'similar', and no contrast entry.
C16_PositiveLabelGivesSimilar ==
  (/\ IsIngestion(lastOp)
   /\ lastOp.reaction.reaction \in {"like", "strongly like"}
   /\ lastOp.reaction.intensity = NoIntensity
   /\ FeaturesOf(trackFeatures, lastOp.reaction.trackId) # Undefined)
  => LET target == FeaturesOf(trackFeatures, lastOp.reaction.trackId)[1]
         list == reply.recommendations
     IN /\ reply.error = None
        /\ Len(list) > 0
        /\ \A i \in 1..Len(list) :
             /\ list[i].reason = "similar"
             /\ \E k \in 1..Len(trackFeatures) :
                  /\ trackFeatures[k].trackId = list[i].trackId
                  /\ list[i].score =
                       calculateContentSimilarity(target, trackFeatures[k].features)
        /\ \A i \in 1..(Len(list) - 1) : list[i].score >= list[i + 1].score

\* the WebSocket handler has answered a like without intensity for track1
C16_Witness ==
  /\ lastOp.op = "wsReaction"
  /\ lastOp.reaction.reaction = "like"
  /\ lastOp.reaction.intensity = NoIntensity
  /\ lastOp.reaction.trackId = "track1"
  /\ Len(reply.recommendations) = 4
  /\ reply.recommendations[1].reason = "similar"

\* C19: after a reaction for a track without an entry in the Feature Store,
\* whatever its sentiment and intensity, the reply holds what
\* getSessionRecommendations(sessionId, profileId) returns in the state the
\* reaction leaves.
C19_NoFeaturesFallsBack ==
  (/\ IsIngestion(lastOp)
   /\ FeaturesOf(trackFeatures, lastOp.reaction.trackId) = Undefined)
  => /\ reply.error = None
     /\ reply.recommendations =
          getSessionRecommendations(trackFeatures, userPreferences, lastOp.sid,
                                    lastOp.pid).recommendations
     /\ getSessionRecommendations(trackFeatures, userPreferences, lastOp.sid,
                                  lastOp.pid).error = None

\* a dislike of intensity 1 for trackX was answered with the combined list
C19_Witness ==
  /\ IsIngestion(lastOp)
  /\ lastOp.reaction.trackId = "trackX"
  /\ lastOp.reaction.reaction = "dislike"
  /\ lastOp.reaction.intensity = <<1>>
  /\ Len(reply.recommendations) = 5
  /\ Includes(reply.recommendations[1].reasons, "content")

\* C17 as stated: the list adaptive mode returns after a positive reaction
\* has at most 5 entries and does not contain the reacted track, whatever the
\* catalog.
C17_SimilarExcludesTarget ==
  lastOp.op = "getAdaptiveRecommendations" =>
    /\ Len(reply.recommendations) <= 5
    /\ \A i \in 1..Len(reply.recommendations) :
         reply.recommendations[i].trackId # lastOp.reaction.trackId

(***************************************************************************)
(* Properties of the debounce of a session WebSocket.                      *)
(***************************************************************************)
\* the submission numbers of the reactions recorded in the sessions
RecordedSeqs(sessions) ==
  UNION {{sessions[s].reactions[i].seq : i \in 1..Len(sessions[s].reactions)} :
           s \in DOMAIN sessions}

\* C20: the messages of a burst of a connection change neither the
\* Preference Model nor a session when they arrive; when the timer fires, the
\* last message of the burst is the one processed: its score is written to
\* the Preference Model and it is the one reaction appended to the list of
\* its session; no earlier message of the burst is ever recorded.
C20_BurstKeepsLatest ==
  [][/\ lastOp'.op = "wsMessage"
          => activeSessions' = activeSessions /\ userPreferences' = userPreferences
     /\ lastOp'.op = "wsReaction"
          => LET burst == wsBurst[lastOp'.cid]
                 latest == burst[Len(burst)]
                 sid == lastOp'.sid
             IN /\ lastOp'.reaction.seq = latest.seq
                /\ latest.profileId \in DOMAIN userPreferences'
                /\ latest.trackId \in DOMAIN userPreferences'[latest.profileId]
                /\ sid \in DOMAIN activeSessions
                     => /\ Len(activeSessions'[sid].reactions)
                             = Len(activeSessions[sid].reactions) + 1
                        /\ IsPrefix(activeSessions[sid].reactions,
                                    activeSessions'[sid].reactions)
                        /\ activeSessions'[sid].reactions[
                             Len(activeSessions'[sid].reactions)].seq = latest.seq
     /\ \A c \in DOMAIN wsBurst' :
          \A i \in 1..(Len(wsBurst'[c]) - 1) :
            wsBurst'[c][i].seq \notin RecordedSeqs(activeSessions')]_vars

\* the timer of a connection has fired after a burst of two messages or more,
\* and the session has recorded one reaction
C20_Witness ==
  /\ lastOp.op = "wsReaction"
  /\ Len(wsBurst[lastOp.cid]) >= 2
  /\ lastOp.sid \in DOMAIN activeSessions
  /\ Len(activeSessions[lastOp.sid].reactions) = 1

(***************************************************************************)
(* Properties of the session table and of the user index                   *)
(***************************************************************************)

IsParticipant(sessions, s, u) ==
  \E i \in 1..Len(Participants(sessions, s)) : Participants(sessions, s)[i].userId = u

ConnectionOf(sessions, s, u) ==
  LET ps == Participants(sessions, s)
  IN ps[CHOOSE i \in 1..Len(ps) : ps[i].userId = u].connectionId

\* C24 as stated: a step that appends a reaction to the reaction list of a
\* session publishes exactly one REACTION_RECORDED event for that session.
C24_ReactionRecordedPublished ==
  [][\A s \in DOMAIN activeSessions :
       (/\ s \in DOMAIN activeSessions'
        /\ Len(activeSessions'[s].reactions) > Len(activeSessions[s].reactions))
         => CountOf(published', "REACTION_RECORDED", s) = 1]_vars

\* C25: updateCurrentTrack(S, t) on a session of the store sets the current
\* track to t, adds one to tracksPlayed, publishes one TRACK_CHANGED event and
\* leaves everything else of the store alone; on an unknown session it changes
\* and publishes nothing.  Every step keeps tracksPlayed of a session equal to
\* the number of TRACK_CHANGED events published for it since its creation.
C25_TrackChangeCounted ==
  [][/\ lastOp'.op = "updateCurrentTrack"
          => LET s == lastOp'.sid
                 t == lastOp'.reaction.trackId
             IN IF s \in DOMAIN activeSessions
               THEN /\ activeSessions'
                         = MapSet(activeSessions, s,
                                  [activeSessions[s] EXCEPT
                                     !.currentTrack = t,
                                     !.metrics.tracksPlayed = @ + 1])
                    /\ activeSessions'[s].participants = activeSessions[s].participants
                    /\ activeSessions'[s].reactions = activeSessions[s].reactions
                    /\ userSessions' = userSessions
                    /\ Len(published') = 1
                    /\ CountOf(published', "TRACK_CHANGED", s) = 1
               ELSE /\ activeSessions' = activeSessions
                    /\ userSessions' = userSessions
                    /\ published' = <<>>
     /\ \A s \in DOMAIN activeSessions' :
          activeSessions'[s].metrics.tracksPlayed
            = (IF s \in DOMAIN activeSessions
                    /\ ~(lastOp'.op = "createSession" /\ lastOp'.sid = s)
               THEN activeSessions[s].metrics.tracksPlayed
               ELSE 0)
              + CountOf(published', "TRACK_CHANGED", s)]_vars

\* updateCurrentTrack has changed the track of a session that has a participant
\* and a reaction
C25_Witness ==
  /\ lastOp.op = "updateCurrentTrack"
  /\ lastOp.sid \in DOMAIN activeSessions
  /\ activeSessions[lastOp.sid].currentTrack = "track1"
  /\ activeSessions[lastOp.sid].metrics.tracksPlayed = 1
  /\ CountOf(published, "TRACK_CHANGED", lastOp.sid) = 1
  /\ Len(activeSessions[lastOp.sid].participants) > 0
  /\ Len(activeSessions[lastOp.sid].reactions) > 0

SessionOps ==
  {"joinSession", "leaveSession", "updateUserReaction", "updateCurrentTrack", "endSession"}

\* C27: a join, leave, reaction, track change or end of one session leaves
\* the participants, the reactions, the current track and the metrics of
\* every other session unchanged.
C27_OtherSessionsUnchanged ==
  [][lastOp'.op \in SessionOps
       => \A s \in DOMAIN activeSessions :
            s # lastOp'.sid
              => /\ s \in DOMAIN activeSessions'
                 /\ activeSessions'[s].participants = activeSessions[s].participants
                 /\ activeSessions'[s].reactions = activeSessions[s].reactions
                 /\ activeSessions'[s].currentTrack = activeSessions[s].currentTrack
                 /\ activeSessions'[s].metrics = activeSessions[s].metrics]_vars

\* a track change of s1 while s2 has a participant
C27_Witness ==
  /\ lastOp.op = "updateCurrentTrack"
  /\ lastOp.sid = "s1"
  /\ "s1" \in DOMAIN activeSessions
  /\ "s2" \in DOMAIN activeSessions
  /\ activeSessions["s1"].currentTrack = "track1"
  /\ activeSessions["s2"].currentTrack = None
  /\ Len(activeSessions["s2"].participants) > 0

\* C28 as stated: for a user who is a participant of a session of the store,
\* getUserSession returns a session in which the user is a participant.
C28_GetUserSessionFindsParticipant ==
  \A u \in UserIds :
    (\E s \in DOMAIN activeSessions : IsParticipant(activeSessions, s, u))
      => LET found == getUserSession(activeSessions, userSessions, u)
         IN /\ found # Undefined
            /\ \E i \in 1..Len(found[1].participants) :
                 found[1].participants[i].userId = u

\* C29 as stated: every entry of the user index refers to a session of the
\* session table.
C29_IndexNeverDangles ==
  \A u \in DOMAIN userSessions : userSessions[u] \in DOMAIN activeSessions

\* C30: a join of a user who is already a participant of the session replaces
\* the connection id and adds no participant; leaveSession(S, c) keeps every
\* participant whose connection id is not c and removes the participant whose
\* connection id is c (c held by that participant only).
C30_RejoinReplacesConnection ==
  [][/\ \A s \in DOMAIN activeSessions, u \in UserIds, c \in ConnIds :
          (/\ lastOp'.op = "joinSession"
           /\ lastOp'.sid = s /\ lastOp'.uid = u /\ lastOp'.cid = c
           /\ IsParticipant(activeSessions, s, u))
            => /\ Len(Participants(activeSessions', s)) = Len(Participants(activeSessions, s))
               /\ IsParticipant(activeSessions', s, u)
               /\ ConnectionOf(activeSessions', s, u) = c
     /\ \A s \in DOMAIN activeSessions, c \in ConnIds :
          (lastOp'.op = "leaveSession" /\ lastOp'.sid = s /\ lastOp'.cid = c)
            => \A u \in UserIds :
                 IsParticipant(activeSessions, s, u)
                   => IF ConnectionOf(activeSessions, s, u) # c
                      THEN /\ s \in DOMAIN activeSessions'
                           /\ IsParticipant(activeSessions', s, u)
                           /\ ConnectionOf(activeSessions', s, u)
                                = ConnectionOf(activeSessions, s, u)
                      ELSE (\A v \in UserIds \ {u} :
                              IsParticipant(activeSessions, s, v)
                                => ConnectionOf(activeSessions, s, v) # c)
                             => \/ s \notin DOMAIN activeSessions'
                                \/ ~IsParticipant(activeSessions', s, u)]_vars

\* leaveSession(s1, c1) has removed nobody: the only participant of s1 holds
\* the connection c2
C30_Witness ==
  /\ lastOp.op = "leaveSession"
  /\ lastOp.sid = "s1"
  /\ lastOp.cid = "c1"
  /\ published = <<>>
  /\ "s1" \in DOMAIN activeSessions
  /\ Len(activeSessions["s1"].participants) = 1
  /\ IsParticipant(activeSessions, "s1", "u1")
  /\ ConnectionOf(activeSessions, "s1", "u1") = "c2"

(***************************************************************************)
(* The track-to-track similarity of the Track documents                    *)
(***************************************************************************)

\* A Track document: artist, genre and era are optional (None and <<>> stand
\* for undefined); energy, valence, acousticness and danceability in
\* thousandths, tempo in beats per minute.
Track(artist, genre, era, energy, valence, tempo, acousticness, danceability) ==
  [artist |-> artist, genre |-> genre, era |-> era,
   features |-> [energy |-> energy, valence |-> valence, tempo |-> tempo,
                 acousticness |-> acousticness, danceability |-> danceability]]

\* Math.sqrt on the naturals, rounded down
sqrt(n) == CHOOSE r \in 0..n : r * r <= n /\ n < (r + 1) * (r + 1)

\* Math.pow(x, 2)
pow2(x) == x * x

\* calculateSimilarity with a boost that starts at 0
calculateSimilarity_BoostFromZero(track, otherTrack) ==
  LET features1 == track.features
      features2 == otherTrack.features
      distance == sqrt(pow2(features1.energy - features2.energy)
                       + pow2(features1.valence - features2.valence)
                       + pow2((features1.tempo - features2.tempo) * 10)
                       + pow2(features1.acousticness - features2.acousticness)
                       + pow2(features1.danceability - features2.danceability))
      boost == (IF track.genre = otherTrack.genre THEN 2 ELSE 0)
               + (IF track.artist = otherTrack.artist THEN 3 ELSE 0)
               + (IF /\ track.era # <<>> /\ otherTrack.era # <<>>
                     /\ Abs(track.era[1] - otherTrack.era[1]) <= 10 THEN 1 ELSE 0)
  IN Min((100000 * boost) \div (1000 + distance), 1000)

\* The similarity in thousandths.  The distance is in thousandths, each squared
\* difference in millionths; the boost is in tenths; similarity * boost is
\* 1/(1 + distance) * boost, rounded once.  A comparison with an undefined era
\* is false (NaN <= 10).
calculateSimilarity(track, otherTrack) ==
  LET features1 == track.features
      features2 == otherTrack.features
      energyDiff == pow2(features1.energy - features2.energy)
      valenceDiff == pow2(features1.valence - features2.valence)
      tempoDiff == pow2((features1.tempo - features2.tempo) * 10)
      acousticDiff == pow2(features1.acousticness - features2.acousticness)
      danceDiff == pow2(features1.danceability - features2.danceability)
      distance == sqrt(energyDiff + valenceDiff + tempoDiff + acousticDiff + danceDiff)
      boost == 10
               + (IF track.genre = otherTrack.genre THEN 2 ELSE 0)
               + (IF track.artist = otherTrack.artist THEN 3 ELSE 0)
               + (IF /\ track.era # <<>> /\ otherTrack.era # <<>>
                     /\ Abs(track.era[1] - otherTrack.era[1]) <= 10 THEN 1 ELSE 0)
  IN Min((100000 * boost) \div (1000 + distance), 1000)

\* the two tracks calculateSimilarity is called on, and every other track of
\* a small grid of attribute values
ThisTracks ==
  {Track("artist1", "classical", <<1950>>, 0, 0, 100, 0, 1000),
   Track(None, None, <<>>, 1000, 50, 200, 50, 0)}
OtherTracks ==
  {Track(artist, genre, era, energy, valence, tempo, acousticness, danceability) :
     artist \in {"artist1", None}, genre \in {"classical", None},
     era \in {<<>>, <<1950>>, <<1958>>, <<1965>>},
     energy \in {0, 50, 1000}, valence \in {0, 50}, tempo \in {100, 200},
     acousticness \in {0, 50, 1000}, danceability \in {0, 1000}}
TrackSimArgs == {[track |-> a, otherTrack |-> b] : a \in ThisTracks, b \in OtherTracks}

CalculateSimilarity ==
  /\ lastOp.op = "init"
  /\ reply' = [type |-> "similarity", error |-> None, recommendations |-> <<>>,
               similarity |-> calculateSimilarity(args.track, args.otherTrack)]
  /\ lastOp' = Op("calculateSimilarity", None, None, None, None, None, None)
  /\ published' = <<>>
  /\ UNCHANGED <<managerVars, userPreferences, wsVars, submitted, fixedVars>>

InitTrackSim == InitState /\ args \in TrackSimArgs
NextTrackSim == CalculateSimilarity
SpecTrackSim == InitTrackSim /\ [][NextTrackSim]_vars

SameGenreEraEnergyValenceTempo(a, b) ==
  /\ a.genre = b.genre
  /\ a.era = b.era
  /\ a.features.energy = b.features.energy
  /\ a.features.valence = b.features.valence
  /\ a.features.tempo = b.features.tempo

\* C26 as stated: two tracks with identical genre, era, energy, valence and
\* tempo have a similarity of exactly 1.0, whatever their acousticness,
\* danceability and artist.
C26_SameFiveGivesOne ==
  (/\ lastOp.op = "calculateSimilarity"
   /\ SameGenreEraEnergyValenceTempo(args.track, args.otherTrack))
    => reply.similarity = 1000

\* C26 amended: two tracks with identical genre, era, energy, valence, tempo,
\* acousticness and danceability have a similarity of exactly 1.0, whatever
\* their artists; every similarity is in 0..1.
C26_SameFeaturesGiveOne ==
  lastOp.op = "calculateSimilarity"
    => /\ reply.similarity \in 0..1000
       /\ (/\ SameGenreEraEnergyValenceTempo(args.track, args.otherTrack)
           /\ args.track.features = args.otherTrack.features)
            => reply.similarity = 1000

\* two tracks of different artists with the same genre, era and features
C26_Witness ==
  /\ lastOp.op = "calculateSimilarity"
  /\ args.track.artist # args.otherTrack.artist
  /\ args.track.genre = "classical"
  /\ args.track.era = <<1950>>
  /\ SameGenreEraEnergyValenceTempo(args.track, args.otherTrack)
  /\ args.track.features = args.otherTrack.features
  /\ reply.similarity = 1000

(***************************************************************************)
(* The session WebSocket: join, music control, periodic session updates    *)
(***************************************************************************)

MaxSocket == 1   \* USER_REACTION messages of the socket specification

\* the actions of a MUSIC_CONTROL message that go to the engine
FeedbackActions == {"SKIP", "LIKE", "DISLIKE"}

\* processUserFeedback: the feedback goes on realtimeReactions$,
\* updateUserPreferences does nothing, the recommendations are those of the
\* session without a profile
processUserFeedback(preferences, sessionId, action) ==
  [events |-> <<[stream |-> "realtimeReactions$", type |-> action,
                 sessionId |-> sessionId, who |-> None]>>,
   nextTracks |-> getSessionRecommendations(trackFeatures, preferences, sessionId, None)]

\* a MUSIC_CONTROL message: the handler answers on the same socket with the
\* recommendations (SKIP, LIKE, DISLIKE) or with the music event itself;
\* a failure of the engine is logged and nothing is sent
WsMusicControl(c, action) ==
  /\ IsOpen(c)
  /\ LET sessionId == connections[c].sessionId
         musicEvent == [stream |-> "musicEvents$", type |-> "MUSIC_EVENT",
                        sessionId |-> sessionId, who |-> c]
         feedback == processUserFeedback(userPreferences, sessionId, action)
     IN /\ published' = IF action \in FeedbackActions
                        THEN <<musicEvent>> \o feedback.events
                        ELSE <<musicEvent>>
        /\ reply' = IF action \in FeedbackActions
                    THEN (IF feedback.nextTracks.error = None
                          THEN Reply("RECOMMENDATIONS_UPDATED",
                                     feedback.nextTracks.recommendations)
                          ELSE NoReply)
                    ELSE Reply("MUSIC_EVENT", <<>>)
        /\ lastOp' = Op("wsMusicControl", sessionId, None, None, c,
                        [action |-> action], None)
  /\ UNCHANGED <<managerVars, userPreferences, wsVars, submitted, fixedVars>>

\* a JOIN_SESSION message: joinSession with the id of the connection, then
\* the initial recommendations; an exception of either gives
\* SESSION_JOIN_ERROR (the join is not undone)
WsJoinSession(c, userId, profileId) ==
  /\ IsOpen(c)
  /\ LET sessionId == connections[c].sessionId
         userInfo == [userId |-> userId, profileId |-> profileId, connectionId |-> c]
         sessionInfo == joinSession(activeSessions, userSessions, sessionId, userInfo)
         initialRecommendations ==
           getSessionRecommendations(trackFeatures, userPreferences, sessionId, profileId)
         error == IF sessionInfo.error # None THEN sessionInfo.error
                  ELSE initialRecommendations.error
     IN /\ activeSessions' = sessionInfo.sessions
        /\ userSessions' = sessionInfo.users
        /\ published' = sessionInfo.events
        /\ reply' = IF error = None
                    THEN Reply("SESSION_JOINED", initialRecommendations.recommendations)
                    ELSE Failure("SESSION_JOIN_ERROR", error)
        /\ lastOp' = Op("wsJoinSession", sessionId, userId, profileId, c, None, error)
  /\ UNCHANGED <<userPreferences, wsVars, submitted, fixedVars>>

\* the callback of the sessionUpdates interval of a connection: it sends
\* SESSION_UPDATE when the manager has metrics for the session
SessionUpdates(c) ==
  /\ c \in DOMAIN connections
  /\ connections[c].sessionUpdates
  /\ LET sessionId == connections[c].sessionId
         sessionMetrics == getSessionMetrics(activeSessions, sessionId)
     IN /\ reply' = IF sessionMetrics # Undefined
                    THEN Reply("SESSION_UPDATE", <<>>)
                    ELSE NoReply
        /\ lastOp' = Op("sessionUpdates", sessionId, None, None, c, None, None)
  /\ published' = <<>>
  /\ UNCHANGED <<managerVars, userPreferences, wsVars, submitted, fixedVars>>

SocketSessions == {"s1"}
SocketActions == {"PLAY", "SKIP"}

NextSocket ==
  \/ \E s \in SocketSessions : CreateSession(s)
  \/ \E s \in SocketSessions : EndSession(s)
  \/ \E c \in ConnIds, s \in SocketSessions : WsOpen(c, s)
  \/ \E c \in ConnIds, u \in UserIds, p \in JoiningProfiles : WsJoinSession(c, u, p)
  \/ \E c \in ConnIds, a \in SocketActions : WsMusicControl(c, a)
  \/ \E c \in ConnIds, m \in PlainPayloads : WsUserReaction(c, m, MaxSocket)
  \/ DebounceFires
  \/ \E c \in ConnIds : SessionUpdates(c)
  \/ \E c \in ConnIds : WsClose(c)

SpecSocket == Init /\ [][NextSocket]_vars

\* the operations that send on the socket of lastOp.cid when reply is a message
SocketSends == {"wsReaction", "wsJoinSession", "wsMusicControl", "sessionUpdates"}

\* C22: a message of the sessionUpdates interval or of the reaction, join or
\* music-control handler of a connection is sent only while the connection is
\* open; the close clears the interval and the pending debounced message, and
\* a closed connection stays closed with its interval cleared.
C22_NothingSentAfterClose ==
  [][/\ (lastOp'.op \in SocketSends /\ reply'.type # None)
          => IsOpen(lastOp'.cid) /\ connections'[lastOp'.cid].open
     /\ lastOp'.op = "wsClose"
          => /\ ~connections'[lastOp'.cid].open
             /\ ~connections'[lastOp'.cid].sessionUpdates
             /\ lastOp'.cid \notin DOMAIN wsPending'
             /\ \A i \in 1..Len(timerQ') : timerQ'[i] # lastOp'.cid
     /\ \A c \in DOMAIN connections :
          ~connections[c].open
            => /\ c \in DOMAIN connections'
               /\ ~connections'[c].open
               /\ ~connections'[c].sessionUpdates
               /\ c \notin DOMAIN wsPending']_vars

\* the interval of c2 sends SESSION_UPDATE for the session of the closed
\* connection c1
C22_Witness ==
  /\ lastOp.op = "sessionUpdates"
  /\ lastOp.cid = "c2"
  /\ reply.type = "SESSION_UPDATE"
  /\ "c1" \in DOMAIN connections
  /\ ~connections["c1"].open
  /\ connections["c1"].sessionId = lastOp.sid

\* C23 as stated: when endSession(S) has ended the session, the
\* sessionUpdates interval of every connection opened for S is cleared.
C23_EndSessionClearsIntervals ==
  (/\ lastOp.op = "endSession"
   /\ CountOf(published, "SESSION_ENDED", lastOp.sid) = 1)
    => \A c \in DOMAIN connections :
         connections[c].sessionId = lastOp.sid => ~connections[c].sessionUpdates

(***************************************************************************)
(* recommendations$: combineLatest of the four inputs, debounceTime(500)   *)
(***************************************************************************)

MaxSubscriptions == 2   \* subscriptions of recommendations$
MaxEmissions == 2       \* calls of processReaction and processUserFeedback

\* what combineLatest emits: the latest value of userPreferences$,
\* trackFeatures$, sessionContext$ and realtimeReactions$ (<<>> is the null
\* of startWith)
combineLatest(preferences, lastReaction) ==
  [preferences |-> preferences, features |-> trackFeatures, context |-> sessionContext,
   lastReaction |-> lastReaction]

\* a debounce that keeps the first value of a burst
debounceTime_KeepFirst(stream, value) ==
  IF stream.subscribed
  THEN [stream EXCEPT !.pending = IF @ = <<>> THEN <<value>> ELSE @, !.burst = @ + 1]
  ELSE stream

\* debounceTime(500) gets a value: it replaces the pending one and the timer
\* restarts; without a subscription nothing is computed at all
debounceTime(stream, value) ==
  IF stream.subscribed
  THEN [stream EXCEPT !.pending = <<value>>, !.burst = @ + 1]
  ELSE stream

\* realtimeReactions$.next(reaction) as the subscription sees it
NextReaction(stream, preferences, reaction) ==
  IF stream.subscribed
  THEN debounceTime([stream EXCEPT !.lastReaction = <<reaction>>],
                    combineLatest(preferences, <<reaction>>))
  ELSE stream

\* userPreferences$.next(preferences) as the subscription sees it
NextPreferences(stream, preferences) ==
  debounceTime(stream, combineLatest(preferences, stream.lastReaction))

\* recommendations$.subscribe: combineLatest emits the current values at once
\* (three BehaviorSubjects and startWith(null))
Subscribe ==
  /\ ~recommendationsStream.subscribed
  /\ recommendationsStream.subscriptions < MaxSubscriptions
  /\ recommendationsStream' =
       debounceTime([NoSubscription EXCEPT
                       !.subscribed = TRUE,
                       !.subscriptions = recommendationsStream.subscriptions + 1],
                    combineLatest(userPreferences, <<>>))
  /\ published' = <<>>
  /\ reply' = NoReply
  /\ lastOp' = Op("subscribe", None, None, None, None, None, None)
  /\ UNCHANGED <<managerVars, userPreferences, wsVars, submitted, now, args>>

\* processReaction called on the engine: the reaction goes on
\* realtimeReactions$, then the new preferences on userPreferences$
ProcessReaction(sessionId, reactionData) ==
  /\ submitted < MaxEmissions
  /\ submitted' = submitted + 1
  /\ LET engine == processReaction(userPreferences, sessionId, reactionData)
         stream1 == NextReaction(recommendationsStream, userPreferences, reactionData)
     IN /\ userPreferences' = engine.preferences
        /\ recommendationsStream' = NextPreferences(stream1, engine.preferences)
        /\ published' = engine.events
        /\ \E response \in engine.nextTracks :
             /\ reply' = IF response.error = None
                         THEN Reply("processReaction", response.recommendations)
                         ELSE Failure("processReaction", response.error)
             /\ lastOp' = Op("processReaction", sessionId, None, reactionData.profileId,
                             None, reactionData, response.error)
  /\ UNCHANGED <<managerVars, wsVars, now, args>>

\* processUserFeedback called on the engine: the feedback goes on
\* realtimeReactions$
ProcessUserFeedback(sessionId, action) ==
  /\ submitted < MaxEmissions
  /\ submitted' = submitted + 1
  /\ LET feedback == processUserFeedback(userPreferences, sessionId, action)
     IN /\ recommendationsStream' =
             NextReaction(recommendationsStream, userPreferences, [action |-> action])
        /\ published' = feedback.events
        /\ reply' = IF feedback.nextTracks.error = None
                    THEN Reply("processUserFeedback", feedback.nextTracks.recommendations)
                    ELSE Failure("processUserFeedback", feedback.nextTracks.error)
        /\ lastOp' = Op("processUserFeedback", sessionId, None, None, None,
                        [action |-> action], feedback.nextTracks.error)
  /\ UNCHANGED <<managerVars, userPreferences, wsVars, now, args>>

\* 500 ms have passed since the last value: debounceTime forwards the pending
\* snapshot and map calls this.generateRecommendations with it; the class has
\* no such method, so the call throws and the subscription ends with the error
GenerateRecommendations ==
  /\ recommendationsStream.subscribed
  /\ recommendationsStream.pending # <<>>
  /\ recommendationsStream' =
       [recommendationsStream EXCEPT !.subscribed = FALSE, !.pending = <<>>, !.burst = 0]
  /\ published' = <<>>
  /\ reply' = Failure("generateRecommendations",
                      "TypeError: this.generateRecommendations is not a function")
  /\ lastOp' = Op("generateRecommendations", None, None, None, None,
                  recommendationsStream.pending[1],
                  "TypeError: this.generateRecommendations is not a function")
  /\ UNCHANGED <<managerVars, userPreferences, wsVars, submitted, now, args>>

StreamPayloads ==
  {Reaction("track1", "like", NoIntensity, "p1", 0),
   Reaction("trackX", "dislike", NoIntensity, "p2", 0)}

NextStream ==
  \/ Subscribe
  \/ \E rd \in StreamPayloads : ProcessReaction("s1", rd)
  \/ \E a \in SocketActions : ProcessUserFeedback("s1", a)
  \/ GenerateRecommendations

SpecStream == Init /\ [][NextStream]_vars

NextLifecycle ==
  \/ \E s \in SessionIds : CreateSession(s)
  \/ \E s \in SessionIds, u \in UserIds, p \in JoiningProfiles, c \in ConnIds :
       JoinSession(s, u, p, c)
  \/ \E s \in SessionIds, c \in ConnIds : LeaveSession(s, c)
  \/ \E s \in SessionIds : EndSession(s)
  \/ \E s \in SessionIds, t \in TrackIds : UpdateCurrentTrack(s, t)

SpecLifecycle == Init /\ [][NextLifecycle]_vars

\* the place of the first event of a type for a session in a feed, 0 if none
PlaceOf(events, type, s) ==
  IF CountOf(events, type, s) = 0 THEN 0
  ELSE CHOOSE i \in 1..Len(events) :
         /\ events[i].type = type /\ events[i].sessionId = s
         /\ \A j \in 1..(i - 1) : ~(events[j].type = type /\ events[j].sessionId = s)

ParticipantEvents == {"USER_JOINED", "USER_LEFT", "TRACK_CHANGED"}

\* C31: the leave of the last participant publishes USER_LEFT and then
\* SESSION_ENDED, nothing after it; an operation on a session id that is not
\* in the store publishes no USER_JOINED, USER_LEFT or TRACK_CHANGED for it.
C31_UserLeftBeforeSessionEnded ==
  [][/\ (/\ lastOp'.op = "leaveSession"
         /\ CountOf(published', "SESSION_ENDED", lastOp'.sid) = 1)
          => /\ Len(published') = 2
             /\ PlaceOf(published', "USER_LEFT", lastOp'.sid) = 1
             /\ PlaceOf(published', "SESSION_ENDED", lastOp'.sid) = 2
             /\ Len(activeSessions[lastOp'.sid].participants) = 1
             /\ published'[1].who = activeSessions[lastOp'.sid].participants[1].userId
             /\ lastOp'.sid \notin DOMAIN activeSessions'
     /\ \A s \in SessionIds : \A i \in 1..Len(published') :
          (published'[i].type = "SESSION_ENDED" /\ published'[i].sessionId = s)
            => /\ i = Len(published')
               /\ s \notin DOMAIN activeSessions'
     /\ \A s \in SessionIds \ DOMAIN activeSessions :
          \A type \in ParticipantEvents : CountOf(published', type, s) = 0]_vars

\* the last participant has left: USER_LEFT, then SESSION_ENDED
C31_Witness ==
  /\ lastOp.op = "leaveSession"
  /\ Len(published) = 2
  /\ published[1].type = "USER_LEFT"
  /\ published[2].type = "SESSION_ENDED"
  /\ lastOp.sid \notin DOMAIN activeSessions

(***************************************************************************)
(* Properties of the session metrics and of the settings                   *)
(***************************************************************************)

\* C37 as stated: the counters positiveReactions and negativeReactions kept
\* by updateSessionMetrics equal those calculateSessionMetrics computes from
\* the reaction list of the session.
C37_CountersMatchComputedMetrics ==
  \A s \in DOMAIN activeSessions :
    LET computed == calculateSessionMetrics(activeSessions[s])
    IN /\ activeSessions[s].metrics.positiveReactions = computed.positiveReactions
       /\ activeSessions[s].metrics.negativeReactions = computed.negativeReactions

(***************************************************************************)
(* Properties of the contrast and similarity lists of the adaptive mode    *)
(***************************************************************************)

\* C39 as stated: after a negative reaction to a track of the Feature Store,
\* the contrast list of the reply does not contain that track.
C39_ContrastExcludesTarget ==
  (/\ IsIngestion(lastOp)
   /\ reply.error = None
   /\ FeaturesOf(trackFeatures, lastOp.reaction.trackId) # Undefined
   /\ \E i \in 1..Len(reply.recommendations) :
        reply.recommendations[i].reason = "contrasting")
  => \A i \in 1..Len(reply.recommendations) :
       reply.recommendations[i].trackId # lastOp.reaction.trackId

\* Feature Stores of two tracks, with era differences up to 100 years and
\* tempo differences up to 140 BPM
RangeFeatures ==
  {Features(genre, era, energy, 500, tempo) :
     genre \in {"classical", "folk"}, era \in {1900, 1950, 1960, 2000},
     energy \in {0, 1000}, tempo \in {60, 160, 200}}
RangeArgs ==
  {[catalog |-> <<Entry("a", f), Entry("b", g)>>, trackId |-> t, reaction |-> r] :
     f \in RangeFeatures, g \in RangeFeatures, t \in {"a", "b"}, r \in {"like", "dislike"}}

\* processReaction of a like or a dislike for a track of the catalog: the
\* similar tracks or the contrasting tracks
Adaptive ==
  /\ lastOp.op = "init"
  /\ LET reactionData == Reaction(args.trackId, args.reaction, NoIntensity, "p1", 0)
         preferences == updateUserPreferencesWithScore(
                          EmptyMap, "p1", args.trackId,
                          reactionToScore(args.reaction, NoIntensity))
     IN \E result \in getAdaptiveRecommendations(args.catalog, preferences, "s1", "p1",
                                                 reactionData) :
          /\ reply' = Reply("adaptive", result.recommendations)
          /\ lastOp' = Op("getAdaptiveRecommendations", "s1", None, "p1", None,
                          reactionData, result.error)
  /\ published' = <<>>
  /\ UNCHANGED <<managerVars, userPreferences, wsVars, submitted, fixedVars>>

InitRange == InitState /\ args \in RangeArgs
NextRange == Adaptive
SpecRange == InitRange /\ [][NextRange]_vars

ScoresInUnitRange(list) == \A i \in 1..Len(list) : list[i].score \in 0..1000

\* every two tracks of the catalog are at most 50 years and 100 BPM apart
WithinNormalisation(catalog) ==
  \A i, j \in 1..Len(catalog) :
    /\ Abs(catalog[i].features.era - catalog[j].features.era) <= 50
    /\ Abs(catalog[i].features.tempo - catalog[j].features.tempo) <= 100

C36_CreateKeepsExistingSession ==
  [][\A s \in SessionIds :
       (lastOp'.op = "createSession" /\ lastOp'.sid = s /\ s \in DOMAIN activeSessions)
         => /\ s \in DOMAIN activeSessions'
            /\ activeSessions'[s].participants = activeSessions[s].participants
            /\ activeSessions'[s].reactions = activeSessions[s].reactions
            /\ activeSessions'[s].currentTrack = activeSessions[s].currentTrack
            /\ activeSessions'[s].metrics = activeSessions[s].metrics]_vars

\* the settings of the body of a create request: none, or a session for one
\* participant
RequestSettings == {EmptyMap, [maxParticipants |-> 1]}

CreateSessionWithSettings(sessionId, settings) ==
  /\ Returns(createSessionWithSettings(activeSessions, userSessions, sessionId, settings))
  /\ lastOp' = Op("createSession", sessionId, None, None, None, None, None)
  /\ UNCHANGED <<userPreferences, wsVars, submitted, fixedVars>>

NextSettings ==
  \/ \E s \in SessionIds, st \in RequestSettings : CreateSessionWithSettings(s, st)
  \/ \E s \in SessionIds, u \in UserIds, p \in JoiningProfiles, c \in ConnIds :
       JoinSession(s, u, p, c)
  \/ \E s \in SessionIds, c \in ConnIds : LeaveSession(s, c)
  \/ \E s \in SessionIds : EndSession(s)

SpecSettings == Init /\ [][NextSettings]_vars

\* C32: a session never has more participants than its maxParticipants
\* setting.
C32_ParticipantsWithinMax ==
  \A s \in DOMAIN activeSessions :
    Len(activeSessions[s].participants) <= activeSessions[s].settings.maxParticipants

(***************************************************************************)
(* Properties of the joins and of the close of a connection                *)
(***************************************************************************)

\* Date.now() as the digits of the clock
DateNow == ToString(now)

\* 'http_' + x
HttpConnectionId(x) == "http_" \o x

\* POST /:sessionId/join by the user userId: joinSession with the connection
\* id 'http_' + Date.now(), then the initial recommendations; an exception of
\* either gives the 500 answer (the join is not undone)
RestJoin(sessionId, userId, profileId) ==
  /\ LET userInfo == [userId |-> userId, profileId |-> profileId,
                      connectionId |-> HttpConnectionId(DateNow)]
         session == joinSession(activeSessions, userSessions, sessionId, userInfo)
         recommendations ==
           getSessionRecommendations(trackFeatures, userPreferences, sessionId, profileId)
         error == IF session.error # None THEN session.error ELSE recommendations.error
     IN /\ activeSessions' = session.sessions
        /\ userSessions' = session.users
        /\ published' = session.events
        /\ reply' = IF error = None
                    THEN Reply("200", recommendations.recommendations)
                    ELSE Failure("500", error)
        /\ lastOp' = Op("restJoin", sessionId, userId, profileId,
                        HttpConnectionId(DateNow), None, error)
  /\ UNCHANGED <<userPreferences, wsVars, submitted, fixedVars>>

\* POST /:sessionId/leave by the user userId: leaveSession with the connection
\* id 'http_' + request.user.id
RestLeave(sessionId, userId) ==
  /\ LET left == leaveSession(activeSessions, userSessions, sessionId,
                               HttpConnectionId(userId))
     IN /\ activeSessions' = left.sessions
        /\ userSessions' = left.users
        /\ published' = left.events
        /\ reply' = IF left.error = None THEN Reply("200", <<>>)
                    ELSE Failure("500", left.error)
        /\ lastOp' = Op("restLeave", sessionId, userId, None, HttpConnectionId(userId),
                        None, left.error)
  /\ UNCHANGED <<userPreferences, wsVars, submitted, fixedVars>>

NextJoin ==
  \/ \E s \in SocketSessions : CreateSession(s)
  \/ \E s \in SocketSessions : EndSession(s)
  \/ \E c \in ConnIds, s \in SocketSessions : WsOpen(c, s)
  \/ \E c \in ConnIds, u \in UserIds, p \in JoiningProfiles : WsJoinSession(c, u, p)
  \/ \E c \in ConnIds : WsClose(c)
  \/ \E s \in SocketSessions, u \in UserIds, p \in JoiningProfiles : RestJoin(s, u, p)
  \/ \E s \in SocketSessions, u \in UserIds : RestLeave(s, u)
  \/ \E s \in SocketSessions, b \in PlainPayloads : RestReaction(s, b, MaxRest)
  \/ Tick

SpecJoin == Init /\ [][NextJoin]_vars

\* the join requests: the JOIN_SESSION message and the REST join route
JoinRequests == {"wsJoinSession", "restJoin"}

\* C33: a join request that is answered with an error (SESSION_JOIN_ERROR,
\* HTTP 500) leaves the participants of the sessions and the user-to-session
\* index as they were.
C33_FailedJoinChangesNothing ==
  [][(lastOp'.op \in JoinRequests /\ reply'.error # None)
       => /\ activeSessions' = activeSessions
          /\ userSessions' = userSessions]_vars

\* C35: after POST /:sessionId/leave of a user that joined the session
\* through POST /:sessionId/join the user is no participant of the session.
C35_RestLeaveRemovesJoinedUser ==
  [][(/\ lastOp'.op = "restLeave"
      /\ lastOp'.sid \in DOMAIN activeSessions
      /\ IsParticipant(activeSessions, lastOp'.sid, lastOp'.uid)
      /\ ConnectionOf(activeSessions, lastOp'.sid, lastOp'.uid) \in
           {HttpConnectionId(ToString(t)) : t \in 0..MaxClock})
       => \/ lastOp'.sid \notin DOMAIN activeSessions'
          \/ ~IsParticipant(activeSessions', lastOp'.sid, lastOp'.uid)]_vars

\* C34: after the close of a session connection no participant with the
\* connection id of that connection is left in a session, also when the
\* connection has sent JOIN_SESSION for several user ids.
C34_CloseRemovesParticipantsOfConnection ==
  [][lastOp'.op = "wsClose"
       => \A s \in DOMAIN activeSessions' :
            ~HasConnection(activeSessions', s, lastOp'.cid)]_vars

(***************************************************************************)
(* Properties of the combined ranking                                      *)
(***************************************************************************)

====
